---------------------------- MODULE Spec2Model ----------------------------
(***************************************************************************)
(* A model of miniChessAI.py: the 5x5 chess variant of class MiniChess.    *)
(*                                                                         *)
(* Game states are Python dictionaries {"board", "turn"}; they live in a   *)
(* heap of objects so that copy.deepcopy, aliasing and in-place writes are *)
(* visible.  Boards are 5-tuples of 5-tuples of piece strings, read and    *)
(* written through Python's list indexing (indices -5..4, negative ones    *)
(* counting from the end, anything else an IndexError).  Scores are kept   *)
(* in tenths because the position tables hold one decimal.                *)
(* An exception that leaves a method is a value: [exc |-> name, ...].      *)
(***************************************************************************)
EXTENDS Integers, Sequences, FiniteSets, TLC

VARIABLES
    heap,               \* object id -> game-state dictionary [board, turn]
    current_game_state, \* self.current_game_state: an object id
    no_capture_count,   \* self.no_capture_count
    turn_number,        \* self.turn_number
    play_mode,          \* self.play_mode
    use_alpha_beta,     \* self.use_alpha_beta
    heuristic,          \* self.heuristic
    stats,              \* states_explored, states_by_depth, total_branches, total_nodes
    pc,                 \* where play() is: "loop", "over", "exited", "raised"; "call"/"returned" for a direct call
    exception,          \* the exception that ended play(), "" when none
    winner,             \* is_game_over's winner at the end of play(): "white", "black", "draw", "" before
    last,               \* the last committed move: [move, prev (object id passed to make_move), prev_count]
    half_moves,         \* half-moves committed since Init
    pending,            \* a direct call of one method: [op, ...arguments]
    ret                 \* what the last direct call or ai_move gave back

vars == <<heap, current_game_state, no_capture_count, turn_number, play_mode,
          use_alpha_beta, heuristic, stats, pc, exception, winner, last,
          half_moves, pending, ret>>

-----------------------------------------------------------------------------
(* Python values *)

None == <<>>

Returned(v) == [exc |-> "", val |-> v]
Raised(e) == [exc |-> e, val |-> None]

\* list[i]: valid for -5 <= i <= 4 on a list of five
InRange(i) == i >= -5 /\ i <= 4
Norm(i) == IF i < 0 THEN i + 5 ELSE i

\* board[row][col]
Get(board, row, col) == board[Norm(row) + 1][Norm(col) + 1]

\* board[row][col] = v
Set(board, row, col, v) ==
    [board EXCEPT ![Norm(row) + 1] = [@ EXCEPT ![Norm(col) + 1] = v]]

\* piece[0] and piece[1] of a piece string; '.'[0] is '.'
Color(piece) ==
    IF piece \in {"wK", "wQ", "wB", "wN", "wp"} THEN "w"
    ELSE IF piece = "." THEN "." ELSE "b"

Type(piece) ==
    CASE piece \in {"wK", "bK"} -> "K"
      [] piece \in {"wQ", "bQ"} -> "Q"
      [] piece \in {"wB", "bB"} -> "B"
      [] piece \in {"wN", "bN"} -> "N"
      [] piece \in {"wp", "bp"} -> "p"
      [] OTHER -> "?"

Pieces == {"wK", "wQ", "wB", "wN", "wp", "bK", "bQ", "bB", "bN", "bp"}

\* range(5)
Range5 == 0 .. 4

init_board ==
    [board |-> << <<"bK", "bQ", "bB", "bN", ".">>,
                  <<".", ".", "bp", "bp", ".">>,
                  <<".", ".", ".", ".", ".">>,
                  <<".", "wp", "wp", ".", ".">>,
                  <<".", "wN", "wB", "wQ", "wK">> >>,
     turn |-> "white"]

-----------------------------------------------------------------------------
(* Move generation *)

OnBoard(r, c) == 0 <= r /\ r < 5 /\ 0 <= c /\ c < 5

KingDirections ==
    << <<-1, -1>>, <<-1, 0>>, <<-1, 1>>,
       <<0, -1>>,             <<0, 1>>,
       <<1, -1>>,  <<1, 0>>,  <<1, 1>> >>

\* every in-board neighbour, whatever stands on it
generate_king_moves_any_target(position, board) ==
    LET row == position[1]
        col == position[2]
        ok(d) == OnBoard(row + d[1], col + d[2])
        dirs == SelectSeq(KingDirections, ok)
    IN  [i \in 1 .. Len(dirs) |->
            <<<<row, col>>, <<row + dirs[i][1], col + dirs[i][2]>>>>]

generate_king_moves(position, board) ==
    LET row == position[1]
        col == position[2]
        piece_color == Color(Get(board, row, col))
        ok(d) == LET new_row == row + d[1]
                     new_col == col + d[2]
                 IN  /\ OnBoard(new_row, new_col)
                     /\ \/ Get(board, new_row, new_col) = "."
                        \/ Color(Get(board, new_row, new_col)) # piece_color
        dirs == SelectSeq(KingDirections, ok)
    IN  [i \in 1 .. Len(dirs) |->
            <<<<row, col>>, <<row + dirs[i][1], col + dirs[i][2]>>>>]

RookDirections == << <<-1, 0>>, <<1, 0>>, <<0, -1>>, <<0, 1>> >>

\* the loop without its break after a capture: the ray goes on behind an
\* opponent's piece
RECURSIVE rook_ray_no_break(_, _, _, _, _, _)
rook_ray_no_break(board, row, col, r, c, d) ==
    IF ~OnBoard(r, c) THEN <<>>
    ELSE IF Get(board, r, c) = "." \/ Color(Get(board, r, c)) # Color(Get(board, row, col))
         THEN <<<<<<row, col>>, <<r, c>>>>>>
              \o rook_ray_no_break(board, row, col, r + d[1], c + d[2], d)
         ELSE <<>>

\* the while loop of generate_rook_moves from square (r, c) in direction d
RECURSIVE rook_ray(_, _, _, _, _, _)
rook_ray(board, row, col, r, c, d) ==
    IF ~OnBoard(r, c) THEN <<>>
    ELSE IF Get(board, r, c) = "."
         THEN <<<<<<row, col>>, <<r, c>>>>>>
              \o rook_ray(board, row, col, r + d[1], c + d[2], d)
         ELSE IF Color(Get(board, r, c)) # Color(Get(board, row, col))
              THEN <<<<<<row, col>>, <<r, c>>>>>>
              ELSE <<>>

RECURSIVE concat_rays_rook(_, _, _, _)
concat_rays_rook(board, row, col, dirs) ==
    IF dirs = <<>> THEN <<>>
    ELSE rook_ray(board, row, col, row + Head(dirs)[1], col + Head(dirs)[2], Head(dirs))
         \o concat_rays_rook(board, row, col, Tail(dirs))

generate_rook_moves(position, board) ==
    concat_rays_rook(board, position[1], position[2], RookDirections)

BishopDirections == << <<-1, -1>>, <<-1, 1>>, <<1, -1>>, <<1, 1>> >>

\* the while loop of generate_bishop_moves from square (r, c) in direction d
RECURSIVE bishop_ray(_, _, _, _, _, _)
bishop_ray(board, row, col, r, c, d) ==
    IF ~OnBoard(r, c) THEN <<>>
    ELSE IF Get(board, r, c) = "."
         THEN <<<<<<row, col>>, <<r, c>>>>>>
              \o bishop_ray(board, row, col, r + d[1], c + d[2], d)
         ELSE IF Color(Get(board, r, c)) # Color(Get(board, row, col))
              THEN <<<<<<row, col>>, <<r, c>>>>>>
              ELSE <<>>

RECURSIVE concat_rays_bishop(_, _, _, _)
concat_rays_bishop(board, row, col, dirs) ==
    IF dirs = <<>> THEN <<>>
    ELSE bishop_ray(board, row, col, row + Head(dirs)[1], col + Head(dirs)[2], Head(dirs))
         \o concat_rays_bishop(board, row, col, Tail(dirs))

generate_bishop_moves(position, board) ==
    concat_rays_bishop(board, position[1], position[2], BishopDirections)

generate_queen_moves(position, board) ==
    generate_rook_moves(position, board) \o generate_bishop_moves(position, board)

KnightOffsets ==
    << <<-2, -1>>, <<-2, 1>>, <<2, -1>>, <<2, 1>>,
       <<-1, -2>>, <<-1, 2>>, <<1, -2>>, <<1, 2>> >>

generate_knight_moves(position, board) ==
    LET row == position[1]
        col == position[2]
        piece_color == Color(Get(board, row, col))
        ok(d) == LET new_row == row + d[1]
                     new_col == col + d[2]
                 IN  /\ OnBoard(new_row, new_col)
                     /\ \/ Get(board, new_row, new_col) = "."
                        \/ Color(Get(board, new_row, new_col)) # piece_color
        offs == SelectSeq(KnightOffsets, ok)
    IN  [i \in 1 .. Len(offs) |->
            <<<<row, col>>, <<row + offs[i][1], col + offs[i][2]>>>>]

\* the step forward taken whatever the square ahead holds
generate_pawn_moves_onto_any(piece, position, board) ==
    LET row == position[1]
        col == position[2]
        direction == IF Color(piece) = "w" THEN -1 ELSE 1
        forward == IF 0 <= row + direction /\ row + direction < 5
                   THEN <<<<<<row, col>>, <<row + direction, col>>>>>>
                   ELSE <<>>
        capture(dc) ==
            LET new_row == row + direction
                new_col == col + dc
            IN  IF /\ OnBoard(new_row, new_col)
                   /\ Get(board, new_row, new_col) # "."
                   /\ Color(Get(board, new_row, new_col)) # Color(piece)
                THEN <<<<<<row, col>>, <<new_row, new_col>>>>>>
                ELSE <<>>
    IN  forward \o capture(-1) \o capture(1)

generate_pawn_moves(piece, position, board) ==
    LET row == position[1]
        col == position[2]
        direction == IF Color(piece) = "w" THEN -1 ELSE 1
        forward == IF /\ 0 <= row + direction /\ row + direction < 5
                      /\ Get(board, row + direction, col) = "."
                   THEN <<<<<<row, col>>, <<row + direction, col>>>>>>
                   ELSE <<>>
        capture(dc) ==
            LET new_row == row + direction
                new_col == col + dc
            IN  IF /\ OnBoard(new_row, new_col)
                   /\ Get(board, new_row, new_col) # "."
                   /\ Color(Get(board, new_row, new_col)) # Color(piece)
                THEN <<<<<<row, col>>, <<new_row, new_col>>>>>>
                ELSE <<>>
    IN  forward \o capture(-1) \o capture(1)

generate_moves_for_piece(piece, position, board) ==
    CASE Type(piece) = "K" -> generate_king_moves(position, board)
      [] Type(piece) = "Q" -> generate_queen_moves(position, board)
      [] Type(piece) = "B" -> generate_bishop_moves(position, board)
      [] Type(piece) = "N" -> generate_knight_moves(position, board)
      [] Type(piece) = "p" -> generate_pawn_moves(piece, position, board)
      [] OTHER -> <<>>

InSeq(x, s) == \E i \in 1 .. Len(s) : s[i] = x

\* the turn is not looked at: a piece of either side may move
is_valid_move_any_side(game_state, move) ==
    LET start == move[1]
        board == game_state.board
    IN  IF ~InRange(start[1]) \/ ~InRange(start[2])
        THEN Raised("IndexError")
        ELSE LET piece == Get(board, start[1], start[2])
             IN  IF piece = "." THEN Returned(FALSE)
                 ELSE Returned(InSeq(move, generate_moves_for_piece(piece, start, board)))

\* game_state is the dictionary itself (is_valid_move only reads it)
is_valid_move(game_state, move) ==
    LET start == move[1]
        start_row == start[1]
        start_col == start[2]
        board == game_state.board
    IN  IF ~InRange(start_row) \/ ~InRange(start_col)
        THEN Raised("IndexError")
        ELSE LET piece == Get(board, start_row, start_col)
                 piece_color == IF Color(piece) = "w" THEN "white" ELSE "black"
             IN  IF piece = "." THEN Returned(FALSE)
                 ELSE IF piece_color # game_state.turn THEN Returned(FALSE)
                 ELSE Returned(InSeq(move, generate_moves_for_piece(piece, start, board)))


-----------------------------------------------------------------------------
(* make_move *)

Refs == {1, 2}

\* new_state = game_state: no copy, the argument's own object
SameRef(game_state) == game_state

\* the object copy.deepcopy allocates: an id other than the one copied
FreshRef(game_state) == CHOOSE r \in Refs : r # game_state

\* new_state = copy.deepcopy(game_state)
deepcopy(h, game_state) == [h EXCEPT ![FreshRef(game_state)] = h[game_state]]

\* the counter moves by one on every real move, a capture or not
count_every_move(ncc, was_capture, is_real_move) ==
    IF is_real_move THEN ncc + 1 ELSE ncc

\* a capture sets the counter to 0 and no other move counts
count_nothing(ncc, was_capture, is_real_move) ==
    IF is_real_move /\ was_capture THEN 0 ELSE ncc

\* lines 286-290: self.no_capture_count after the update
update_no_capture_count(ncc, was_capture, is_real_move) ==
    IF is_real_move
    THEN (IF was_capture THEN 0 ELSE ncc + 1)
    ELSE ncc

\* the piece stays what it was on every row
never_promote(piece, end_row) == piece

\* lines 294-296: the piece the destination holds after the promotion check
promote(piece, end_row) ==
    IF /\ Type(piece) = "p"
       /\ \/ (Color(piece) = "w" /\ end_row = 0)
          \/ (Color(piece) = "b" /\ end_row = 4)
    THEN (IF Color(piece) = "w" THEN "wQ" ELSE "bQ")
    ELSE piece

\* the moved piece stays on its square as well
leave_start(board, start_row, start_col) == board

\* line 281: the board once the start square is emptied
empty_start(board, start_row, start_col) == Set(board, start_row, start_col, ".")

\* the same side moves again
keep_turn(turn) == turn

\* line 298: the side to move after the move
switch_turn(turn) == IF turn = "white" THEN "black" ELSE "white"

\* game_state is an object id of heap h; the result holds the heap after the
\* call, the returned object id and self.no_capture_count after the call
make_move(h, game_state, move, is_real_move, ncc) ==
    LET new_state == FreshRef(game_state)
        h1 == deepcopy(h, game_state)
    IN  IF move = None
        THEN [exc |-> "TypeError", heap |-> h1, val |-> None, no_capture_count |-> ncc]
        ELSE
        LET start_row == move[1][1]
            start_col == move[1][2]
            end_row == move[2][1]
            end_col == move[2][2]
        IN  IF ~InRange(start_row) \/ ~InRange(start_col)
            THEN [exc |-> "IndexError", heap |-> h1, val |-> None, no_capture_count |-> ncc]
            ELSE
            LET piece == Get(h1[new_state].board, start_row, start_col)
                h2 == [h1 EXCEPT ![new_state].board = empty_start(@, start_row, start_col)]
            IN  IF ~InRange(end_row) \/ ~InRange(end_col)
                THEN [exc |-> "IndexError", heap |-> h2, val |-> None, no_capture_count |-> ncc]
                ELSE
                LET was_capture == Get(h2[new_state].board, end_row, end_col) # "."
                    ncc1 == update_no_capture_count(ncc, was_capture, is_real_move)
                    h3 == [h2 EXCEPT ![new_state].board = Set(@, end_row, end_col, piece)]
                IN  IF piece = "."
                    THEN [exc |-> "IndexError", heap |-> h3, val |-> None, no_capture_count |-> ncc1]
                    ELSE
                    LET h4 == [h3 EXCEPT ![new_state].board =
                                  Set(@, end_row, end_col, promote(piece, end_row))]
                        h5 == [h4 EXCEPT ![new_state].turn = switch_turn(@)]
                    IN  [exc |-> "", heap |-> h5, val |-> new_state, no_capture_count |-> ncc1]

-----------------------------------------------------------------------------
(* End of game *)

NoWinner == "None"

DrawLimit == 20

\* the comparison one off: a draw only past the limit
check_for_draw_past_limit(ncc) == ncc > DrawLimit

check_for_draw(ncc) == ncc >= DrawLimit

HasPiece(board, piece) == \E r \in 1 .. 5 : \E c \in 1 .. 5 : board[r][c] = piece

\* the draw checked before the kings
is_game_over_draw_first(game_state, ncc) ==
    IF check_for_draw(ncc) THEN [over |-> TRUE, winner |-> NoWinner]
    ELSE IF ~HasPiece(game_state.board, "wK") THEN [over |-> TRUE, winner |-> "black"]
    ELSE IF ~HasPiece(game_state.board, "bK") THEN [over |-> TRUE, winner |-> "white"]
    ELSE [over |-> FALSE, winner |-> NoWinner]

\* (is_over, winner); ncc is self.no_capture_count
is_game_over(game_state, ncc) ==
    LET board == game_state.board
        white_king_exists == HasPiece(board, "wK")
        black_king_exists == HasPiece(board, "bK")
    IN  IF ~white_king_exists THEN [over |-> TRUE, winner |-> "black"]
        ELSE IF ~black_king_exists THEN [over |-> TRUE, winner |-> "white"]
        ELSE IF check_for_draw(ncc) THEN [over |-> TRUE, winner |-> NoWinner]
        ELSE [over |-> FALSE, winner |-> NoWinner]

-----------------------------------------------------------------------------
(* Coordinate text.  A text is a sequence of one-character strings. *)

Digits == <<"0", "1", "2", "3", "4", "5", "6", "7", "8", "9">>

IsDigit(ch) == \E i \in 1 .. 10 : Digits[i] = ch

\* int(ch) of a digit
int(ch) == (CHOOSE i \in 1 .. 10 : Digits[i] = ch) - 1

Letters == <<"?", "@", "A", "B", "C", "D", "E", "F">>

\* ch.upper()
Upper(ch) ==
    CASE ch = "a" -> "A" [] ch = "b" -> "B" [] ch = "c" -> "C"
      [] ch = "d" -> "D" [] ch = "e" -> "E" [] ch = "f" -> "F"
      [] ch = "x" -> "X"
      [] OTHER -> ch

\* ord(ch)
Ord(ch) ==
    IF IsDigit(ch) THEN 48 + int(ch)
    ELSE IF \E i \in 1 .. 8 : Letters[i] = ch
         THEN 62 + (CHOOSE i \in 1 .. 8 : Letters[i] = ch)
         ELSE IF ch = "X" THEN 88
         ELSE IF ch = " " THEN 32
         ELSE 120

\* chr(n) for the codes format_coord produces
Chr(n) == IF n >= 63 /\ n <= 70 THEN Letters[n - 62] ELSE "?"

\* move.split(): the maximal runs of non-space characters
RECURSIVE str_split(_, _)
str_split(s, cur) ==
    IF s = <<>> THEN (IF cur = <<>> THEN <<>> ELSE <<cur>>)
    ELSE IF Head(s) = " "
         THEN (IF cur = <<>> THEN str_split(Tail(s), <<>>)
               ELSE <<cur>> \o str_split(Tail(s), <<>>))
         ELSE str_split(Tail(s), Append(cur, Head(s)))

\* the try body raises (ValueError, IndexError) exactly where None is returned
parse_input(move) ==
    LET parts == str_split(move, <<>>)
    IN  IF Len(parts) # 2 THEN None
        ELSE LET start == parts[1]
                 end == parts[2]
             IN  IF Len(start) < 2 \/ ~IsDigit(start[2]) THEN None
                 ELSE IF Len(end) < 2 \/ ~IsDigit(end[2]) THEN None
                 ELSE << <<5 - int(start[2]), Ord(Upper(start[1])) - Ord("A")>>,
                         <<5 - int(end[2]), Ord(Upper(end[1])) - Ord("A")>> >>

format_coord(coord) ==
    LET row == coord[1]
        col == coord[2]
        col_letter == Chr(col + Ord("A"))
        row_number == 5 - row
    IN  <<col_letter, Digits[row_number + 1]>>


-----------------------------------------------------------------------------
(* Evaluation.  Scores are in tenths: a pawn is 10, a king 9990. *)

pawn_table ==
    << <<0, 0, 0, 0, 0>>,
       <<20, 20, 25, 20, 20>>,
       <<10, 12, 15, 12, 10>>,
       <<5, 6, 8, 6, 5>>,
       <<0, 0, 0, 0, 0>> >>

knight_table ==
    << <<0, 5, 10, 5, 0>>,
       <<5, 10, 15, 10, 5>>,
       <<10, 15, 20, 15, 10>>,
       <<5, 10, 15, 10, 5>>,
       <<0, 5, 10, 5, 0>> >>

bishop_table ==
    << <<5, 0, 0, 0, 5>>,
       <<0, 10, 5, 10, 0>>,
       <<0, 5, 10, 5, 0>>,
       <<0, 10, 5, 10, 0>>,
       <<5, 0, 0, 0, 5>> >>

queen_table ==
    << <<0, 2, 2, 2, 0>>,
       <<2, 5, 5, 5, 2>>,
       <<2, 5, 10, 5, 2>>,
       <<2, 5, 5, 5, 2>>,
       <<0, 2, 2, 2, 0>> >>

king_table ==
    << <<5, 0, 0, 0, 5>>,
       <<0, 0, 0, 0, 0>>,
       <<0, 0, 0, 0, 0>>,
       <<0, 0, 0, 0, 0>>,
       <<5, 0, 0, 0, 5>> >>

RECURSIVE SeqSum(_)
SeqSum(s) == IF s = <<>> THEN 0 ELSE Head(s) + SeqSum(Tail(s))

\* the number of squares holding piece
Count(board, piece) ==
    Cardinality({sq \in Range5 \X Range5 : Get(board, sq[1], sq[2]) = piece})

TableOf(piece) ==
    CASE Type(piece) = "p" -> pawn_table
      [] Type(piece) = "B" -> bishop_table
      [] Type(piece) = "N" -> knight_table
      [] Type(piece) = "Q" -> queen_table
      [] OTHER -> king_table

\* white_position / black_position: the table value of every piece of the
\* color, black reading the table at row 4 - row
Position(board, color) ==
    SeqSum([k \in 1 .. 25 |->
        LET row == (k - 1) \div 5
            col == (k - 1) % 5
            piece == Get(board, row, col)
        IN  IF piece = "." \/ Color(piece) # color THEN 0
            ELSE IF color = "w" THEN Get(TableOf(piece), row, col)
            ELSE Get(TableOf(piece), 4 - row, col)])

\* every piece counts one
Material_unweighted(board, color) ==
    10 * Cardinality({sq \in Range5 \X Range5 : Color(Get(board, sq[1], sq[2])) = color})

\* white_material / black_material, in tenths
Material(board, color) ==
    LET n(t) == Count(board, IF color = "w"
                             THEN (CASE t = "p" -> "wp" [] t = "B" -> "wB" [] t = "N" -> "wN"
                                     [] t = "Q" -> "wQ" [] OTHER -> "wK")
                             ELSE (CASE t = "p" -> "bp" [] t = "B" -> "bB" [] t = "N" -> "bN"
                                     [] t = "Q" -> "bQ" [] OTHER -> "bK"))
    IN  10 * (n("p") + 3 * n("B") + 3 * n("N") + 9 * n("Q") + 999 * n("K"))

\* self.valid_moves(game_state): the def of valid_moves stands inside a string
\* literal (the triple quotes of source lines 104 and 127), so the class has no
\* such attribute and the attribute lookup raises
valid_moves(game_state) == Raised("AttributeError")

\* the weight one move adds to the attacked total of the side owning its target
AttackWeight(board, move, color) ==
    LET target == Get(board, move[2][1], move[2][2])
    IN  IF target = "." \/ Color(target) # color THEN 0
        ELSE CASE Type(target) = "p" -> 1
               [] Type(target) \in {"B", "N"} -> 3
               [] Type(target) = "Q" -> 9
               [] Type(target) = "K" -> 50
               [] OTHER -> 0

\* heur is self.heuristic
evaluate_board(heur, game_state) ==
    LET board == game_state.board
        white_material == Material(board, "w")
        black_material == Material(board, "b")
        white_position == Position(board, "w")
        black_position == Position(board, "b")
    IN  IF heur = "e0" THEN Returned(white_material - black_material)
        ELSE IF heur = "e1"
        THEN Returned((white_material + white_position) - (black_material + black_position))
        ELSE IF heur = "e2"
        THEN LET black_moves == valid_moves([game_state EXCEPT !.turn = "black"])
             IN  IF black_moves.exc # "" THEN Raised(black_moves.exc)
                 ELSE
                 LET white_moves == valid_moves([game_state EXCEPT !.turn = "white"])
                 IN  IF white_moves.exc # "" THEN Raised(white_moves.exc)
                     ELSE
                     LET white_attacked ==
                             SeqSum([i \in 1 .. Len(black_moves.val) |->
                                        AttackWeight(board, black_moves.val[i], "w")])
                         black_attacked ==
                             SeqSum([i \in 1 .. Len(white_moves.val) |->
                                        AttackWeight(board, white_moves.val[i], "b")])
                         \* 0.5 of a unit is 5 tenths
                         white_score == white_material + white_position - white_attacked * 5
                         black_score == black_material + black_position - black_attacked * 5
                     IN  Returned(white_score - black_score)
        ELSE Returned(white_material - black_material)


-----------------------------------------------------------------------------
(* Search.                                                                 *)
(* self is the record of the object's fields a search reads: max_time,     *)
(* heuristic, no_capture_count, and clock, the elapsed times (in ticks,    *)
(* since start_time) that the successive time.time() readings return.      *)
(* ctx is what a search writes: the number of clock readings made and the  *)
(* statistics counters.                                                    *)

\* float('inf')
Inf == 1000000000

\* the elapsed time at the k-th reading: the listed readings, then a clock
\* that keeps advancing by one tick a reading
Elapsed(clock, k) ==
    IF k <= Len(clock) THEN clock[k]
    ELSE (IF clock = <<>> THEN 0 ELSE clock[Len(clock)]) + (k - Len(clock))

\* one more time.time() reading
Tick(ctx) == [ctx EXCEPT !.reads = @ + 1]

\* only the total is counted
CountState_total_only(ctx, depth) == [ctx EXCEPT !.states_explored = @ + 1]

\* lines 404-409: states_explored and states_by_depth[depth]
CountState(ctx, depth) ==
    [ctx EXCEPT !.states_explored = @ + 1,
                !.states_by_depth = IF depth \in DOMAIN @
                                    THEN [@ EXCEPT ![depth] = @ + 1]
                                    ELSE @ @@ (depth :> 1)]

\* lines 434-435: total_branches and total_nodes
CountBranches(ctx, n) ==
    [ctx EXCEPT !.total_branches = @ + n, !.total_nodes = @ + 1]

Result(score, move, ctx) == [exc |-> "", score |-> score, move |-> move, ctx |-> ctx]
Failure(e, ctx) == [exc |-> e, score |-> 0, move |-> None, ctx |-> ctx]

\* new_state = copy.deepcopy(temp_state); self.make_move(new_state, move, False):
\* the dictionary new_state holds after the call, whose return value is dropped
AfterMakeMove(self, temp_state, move) ==
    make_move([r \in Refs |-> temp_state], 1, move, FALSE, self.no_capture_count).heap[1]

\* lines 413-419: the score of a finished game; over is is_game_over's result
TerminalResult(over, ctx) ==
    IF over.winner = NoWinner THEN Result(0, None, ctx)
    ELSE IF over.winner = "white" THEN Result(10000, None, ctx)
    ELSE Result(-10000, None, ctx)

\* lines 422-423: return self.evaluate_board(game_state), None; e is its outcome
LeafResult(e, ctx) ==
    IF e.exc # "" THEN Failure(e.exc, ctx) ELSE Result(e.val, None, ctx)

\* temp_state = copy.deepcopy(game_state); temp_state["turn"] = current_player
TempState(game_state, maximizing_player) ==
    [game_state EXCEPT !.turn = IF maximizing_player THEN "white" ELSE "black"]

RECURSIVE minimax(_, _, _, _, _)
RECURSIVE minimax_loop(_, _, _, _, _, _, _, _, _)

\* one pass of the for loop of minimax: child is what the recursive call on
\* all_moves[i] gave; best is max_score or min_score
minimax_pass(self, temp_state, depth, maximizing_player, all_moves, i, best, best_move, child) ==
    IF child.exc # "" THEN child
    ELSE IF (IF maximizing_player THEN child.score > best ELSE child.score < best)
         THEN minimax_loop(self, child.ctx, temp_state, depth, maximizing_player, all_moves,
                           i + 1, child.score, all_moves[i])
         ELSE minimax_loop(self, child.ctx, temp_state, depth, maximizing_player, all_moves,
                           i + 1, best, best_move)

\* the for loop of minimax over all_moves[i ..]
minimax_loop(self, ctx, temp_state, depth, maximizing_player, all_moves, i, best, best_move) ==
    IF i > Len(all_moves) THEN Result(best, best_move, ctx)
    ELSE minimax_pass(self, temp_state, depth, maximizing_player, all_moves, i, best, best_move,
                      minimax(self, ctx, AfterMakeMove(self, temp_state, all_moves[i]),
                              depth - 1, ~maximizing_player))

\* lines 431-470: all_moves is what self.valid_moves(temp_state) gave
minimax_moves(self, ctx, temp_state, depth, maximizing_player, all_moves) ==
    IF all_moves.exc # "" THEN Failure(all_moves.exc, ctx)
    ELSE minimax_loop(self, CountBranches(ctx, Len(all_moves.val)), temp_state, depth,
                      maximizing_player, all_moves.val, 1,
                      IF maximizing_player THEN -Inf ELSE Inf, None)

\* lines 411-431: over is what self.is_game_over(game_state) gave
minimax_node(self, ctx, game_state, depth, maximizing_player, over) ==
    IF over.over THEN TerminalResult(over, ctx)
    ELSE IF depth = 0 THEN LeafResult(evaluate_board(self.heuristic, game_state), ctx)
    ELSE minimax_moves(self, ctx, TempState(game_state, maximizing_player), depth,
                       maximizing_player,
                       valid_moves(TempState(game_state, maximizing_player)))

\* lines 400-409: c1 is ctx after the clock reading of line 400
minimax_enter(self, c1, game_state, depth, maximizing_player) ==
    IF Elapsed(self.clock, c1.reads) > self.max_time THEN Result(0, None, c1)
    ELSE minimax_node(self, CountState(c1, depth), game_state, depth, maximizing_player,
                      is_game_over(game_state, self.no_capture_count))

minimax(self, ctx, game_state, depth, maximizing_player) ==
    minimax_enter(self, Tick(ctx), game_state, depth, maximizing_player)

Max(a, b) == IF a >= b THEN a ELSE b
Min(a, b) == IF a <= b THEN a ELSE b

RECURSIVE alpha_beta(_, _, _, _, _, _, _)
RECURSIVE alpha_beta_loop(_, _, _, _, _, _, _, _, _, _, _)

\* lines 527-529 and 548-550: the window after a child, with the best score so
\* far best1 and its move move1, and the break on beta <= alpha
alpha_beta_cut(self, ctx, temp_state, depth, alpha1, beta1, maximizing_player, all_moves, i, best1, move1) ==
    IF beta1 <= alpha1 THEN Result(best1, move1, ctx)
    ELSE alpha_beta_loop(self, ctx, temp_state, depth, alpha1, beta1, maximizing_player,
                         all_moves, i + 1, best1, move1)

\* lines 523-525 and 544-546, then the window: best1 is the best score after child
alpha_beta_window(self, ctx, temp_state, depth, alpha, beta, maximizing_player, all_moves, i, best1, move1) ==
    alpha_beta_cut(self, ctx, temp_state, depth,
                   IF maximizing_player THEN Max(alpha, best1) ELSE alpha,
                   IF maximizing_player THEN beta ELSE Min(beta, best1),
                   maximizing_player, all_moves, i, best1, move1)

\* one pass of the for loop of alpha_beta: child is what the recursive call on
\* all_moves[i] gave
alpha_beta_pass(self, temp_state, depth, alpha, beta, maximizing_player, all_moves, i, best, best_move, child) ==
    IF child.exc # "" THEN child
    ELSE IF (IF maximizing_player THEN child.score > best ELSE child.score < best)
         THEN alpha_beta_window(self, child.ctx, temp_state, depth, alpha, beta,
                                maximizing_player, all_moves, i, child.score, all_moves[i])
         ELSE alpha_beta_window(self, child.ctx, temp_state, depth, alpha, beta,
                                maximizing_player, all_moves, i, best, best_move)

\* the for loop of alpha_beta over all_moves[i ..]
alpha_beta_loop(self, ctx, temp_state, depth, alpha, beta, maximizing_player, all_moves, i, best, best_move) ==
    IF i > Len(all_moves) THEN Result(best, best_move, ctx)
    ELSE alpha_beta_pass(self, temp_state, depth, alpha, beta, maximizing_player, all_moves, i,
                         best, best_move,
                         alpha_beta(self, ctx, AfterMakeMove(self, temp_state, all_moves[i]),
                                    depth - 1, alpha, beta, ~maximizing_player))

\* lines 505-552: all_moves is what self.valid_moves(temp_state) gave
alpha_beta_moves(self, ctx, temp_state, depth, alpha, beta, maximizing_player, all_moves) ==
    IF all_moves.exc # "" THEN Failure(all_moves.exc, ctx)
    ELSE alpha_beta_loop(self, CountBranches(ctx, Len(all_moves.val)), temp_state, depth,
                         alpha, beta, maximizing_player, all_moves.val, 1,
                         IF maximizing_player THEN -Inf ELSE Inf, None)

\* lines 485-505: over is what self.is_game_over(game_state) gave
alpha_beta_node(self, ctx, game_state, depth, alpha, beta, maximizing_player, over) ==
    IF over.over THEN TerminalResult(over, ctx)
    ELSE IF depth = 0 THEN LeafResult(evaluate_board(self.heuristic, game_state), ctx)
    ELSE alpha_beta_moves(self, ctx, TempState(game_state, maximizing_player), depth,
                          alpha, beta, maximizing_player,
                          valid_moves(TempState(game_state, maximizing_player)))

\* lines 474-483: c1 is ctx after the clock reading of line 474
alpha_beta_enter(self, c1, game_state, depth, alpha, beta, maximizing_player) ==
    IF Elapsed(self.clock, c1.reads) > self.max_time THEN Result(0, None, c1)
    ELSE alpha_beta_node(self, CountState(c1, depth), game_state, depth, alpha, beta,
                         maximizing_player,
                         is_game_over(game_state, self.no_capture_count))

alpha_beta(self, ctx, game_state, depth, alpha, beta, maximizing_player) ==
    alpha_beta_enter(self, Tick(ctx), game_state, depth, alpha, beta, maximizing_player)

\* the statistics ai_move starts from (lines 556-559), no clock reading made
\* the counters start from what the object holds: no reset
KeptCtx ==
    [reads |-> 0, states_explored |-> stats.states_explored,
     states_by_depth |-> stats.states_by_depth, total_branches |-> stats.total_branches,
     total_nodes |-> stats.total_nodes]

FreshCtx ==
    [reads |-> 0, states_explored |-> 0, states_by_depth |-> <<>>,
     total_branches |-> 0, total_nodes |-> 0]

\* what ai_move gives back: (best_move, elapsed_time, heuristic_score, best_score)
\* without the elapsed time; best_score None is has_score FALSE; depth is the
\* local depth when the loop was left
AiResult(exc, best_move, heuristic_score, best_score, has_score, depth, ctx) ==
    [exc |-> exc, best_move |-> best_move, heuristic_score |-> heuristic_score,
     best_score |-> best_score, has_score |-> has_score, depth |-> depth, ctx |-> ctx]

\* lines 605-616: h is what self.evaluate_board(self.current_game_state) gave
ai_report(ctx, depth, best_move, best_score, h) ==
    IF h.exc # "" THEN AiResult(h.exc, None, 0, 0, FALSE, depth, ctx)
    ELSE AiResult("", best_move, h.val, best_score, TRUE, depth, ctx)

\* lines 596-603: valid is what self.valid_moves(self.current_game_state) gave
ai_fallback(self, ctx, game_state, depth, valid) ==
    IF valid.exc # "" THEN AiResult(valid.exc, None, 0, 0, FALSE, depth, ctx)
    ELSE IF valid.val = <<>> THEN AiResult("", None, 0, 0, FALSE, depth, ctx)
    ELSE ai_report(ctx, depth, valid.val[1], 0, evaluate_board(self.heuristic, game_state))

\* lines 594-616: ctx is after the clock reading of line 591
ai_end(self, ctx, game_state, depth, best_move, best_score) ==
    IF best_move = None
    THEN ai_fallback(self, ctx, game_state, depth, valid_moves(game_state))
    ELSE ai_report(ctx, depth, best_move, best_score,
                   evaluate_board(self.heuristic, game_state))

\* lines 591-616: after the iterative-deepening loop
ai_finish(self, ctx, game_state, depth, best_move, best_score) ==
    ai_end(self, Tick(ctx), game_state, depth, best_move, best_score)

RECURSIVE ai_loop(_, _, _, _, _, _, _)

\* lines 585-589: depth is already increased, c2 is ctx after the reading of line 588
ai_next(self, c2, game_state, use_ab, depth, best_move, best_score) ==
    IF Elapsed(self.clock, c2.reads) * 10 > self.max_time * 8
    THEN ai_finish(self, c2, game_state, depth, best_move, best_score)
    ELSE ai_loop(self, c2, game_state, use_ab, depth, best_move, best_score)

\* lines 579-585: r is what the search of this depth gave
ai_searched(self, game_state, use_ab, depth, best_move, best_score, r) ==
    IF r.exc # "" THEN AiResult(r.exc, None, 0, 0, FALSE, depth, r.ctx)
    ELSE ai_next(self, Tick(r.ctx), game_state, use_ab, depth + 1,
                 IF r.move # None THEN r.move ELSE best_move,
                 IF r.move # None THEN r.score ELSE best_score)

\* a new depth is started as long as max_time itself is not used up
ai_pass_whole_time(self, c1, game_state, use_ab, depth, best_move, best_score) ==
    IF Elapsed(self.clock, c1.reads) > self.max_time
    THEN ai_finish(self, c1, game_state, depth, best_move, best_score)
    ELSE ai_searched(self, game_state, use_ab, depth, best_move, best_score,
                     IF use_ab
                     THEN alpha_beta(self, c1, game_state, depth, -Inf, Inf,
                                     game_state.turn = "white")
                     ELSE minimax(self, c1, game_state, depth, game_state.turn = "white"))

\* lines 569-577: c1 is ctx after the clock reading of line 569
ai_pass(self, c1, game_state, use_ab, depth, best_move, best_score) ==
    IF Elapsed(self.clock, c1.reads) * 10 > self.max_time * 7
    THEN ai_finish(self, c1, game_state, depth, best_move, best_score)
    ELSE ai_searched(self, game_state, use_ab, depth, best_move, best_score,
                     IF use_ab
                     THEN alpha_beta(self, c1, game_state, depth, -Inf, Inf,
                                     game_state.turn = "white")
                     ELSE minimax(self, c1, game_state, depth, game_state.turn = "white"))

\* the while loop of ai_move from its pass at depth
ai_loop(self, ctx, game_state, use_ab, depth, best_move, best_score) ==
    ai_pass(self, Tick(ctx), game_state, use_ab, depth, best_move, best_score)

\* game_state is the dictionary self.current_game_state refers to
ai_move(self, game_state, use_ab) ==
    ai_loop(self, FreshCtx, game_state, use_ab, 1, None, 0)

\* lines 426-428 (minimax) and 500-502 (alpha_beta) on the heap h, game_state
\* being an object id: the copy is allocated and its "turn" is written
temp_state_heap(h, game_state, maximizing_player) ==
    [deepcopy(h, game_state) EXCEPT
        ![FreshRef(game_state)].turn = IF maximizing_player THEN "white" ELSE "black"]

\* the heap after minimax or alpha_beta was called on the object game_state
\* with ctx: lines 426-428 are the search's only writes to a dictionary before
\* line 431 (505), whose call of valid_moves raises and ends the search
search_heap(self, ctx, h, game_state, depth, maximizing_player) ==
    IF Elapsed(self.clock, Tick(ctx).reads) > self.max_time THEN h
    ELSE IF is_game_over(h[game_state], self.no_capture_count).over THEN h
    ELSE IF depth = 0 THEN h
    ELSE temp_state_heap(h, game_state, maximizing_player)

\* the heap after ai_move on the object game_state: a search of a game that
\* is over or out of time writes nothing, any other ends ai_move
ai_move_heap(self, h, game_state) ==
    IF Elapsed(self.clock, Tick(FreshCtx).reads) * 10 > self.max_time * 7 THEN h
    ELSE search_heap(self, Tick(FreshCtx), h, game_state, 1, h[game_state].turn = "white")

-----------------------------------------------------------------------------
(* The inputs of the model *)

\* self.max_time, in clock ticks: a tick is a tenth of the allowed time
max_time == 10

\* elapsed times a reading can return: in time, past 70%, past 80%, past the deadline
ClockTimes == {0, 8, 9, 11}

\* the first three readings of a call of ai_move, in the order they are made
Clocks == {c \in ClockTimes \X ClockTimes \X ClockTimes : c[1] <= c[2] /\ c[2] <= c[3]}

\* the typed characters of a coordinate: a column letter ("@" stands before
\* "A", "F" after "E") and a row digit ("0" below row 1, "6" above row 5)
ColChars == {"@", "A", "B", "C", "D", "E", "F"}
RowChars == {"0", "1", "2", "3", "4", "5", "6"}

Tokens == {<<c, r>> : c \in ColChars, r \in RowChars}

ExitText == <<"e", "x", "i", "t">>

\* the texts typed at the prompt: every pair of coordinates, and texts of other shapes
Texts ==
    {a \o <<" ">> \o b : a \in Tokens, b \in Tokens}
    \cup { ExitText,
           <<>>,
           <<"B", "2">>,
           <<"B", "2", "B", "3">>,
           <<"B", "2", " ", "B", "3", " ", "B", "4">>,
           <<"B", "x", " ", "B", "3">>,
           <<"B", " ", "B", "3">>,
           <<"b", "2", " ", "b", "3">>,
           <<"B", "2", "2", " ", "B", "3">>,
           <<" ", "B", "2", " ", " ", "B", "3", " ">> }

\* move_str.lower() == 'exit'
Lower(ch) ==
    CASE ch = "E" -> "e" [] ch = "X" -> "x" [] ch = "I" -> "i" [] ch = "T" -> "t"
      [] OTHER -> ch

IsExit(move_str) == [i \in 1 .. Len(move_str) |-> Lower(move_str[i])] = ExitText

\* what the prompt loop computes from each text, computed once: whether it is
\* the exit command, and parse_input of it
Typed == [move_str \in Texts |-> [exit |-> IsExit(move_str), move |-> parse_input(move_str)]]

PlayModes == {"H-H", "H-AI", "AI-H", "AI-AI"}

Heuristics == {"e0", "e1", "e2"}

\* half-moves explored from an initial position
MaxHalfMoves == 2


-----------------------------------------------------------------------------
(* The positions play() is observed from: each the state of the object     *)
(* after the listed moves, typed at the prompt from the starting layout.   *)

\* MiniChess() followed by the first statements of play()
StartPosition ==
    [state |-> init_board, no_capture_count |-> 0, turn_number |-> 1]

\* after B2 B3, D5 C3, D1 D3, C4 D3, B1 A3, C3 E2, A3 B5, A5 B5, C1 E3,
\* D3 C2, B3 B4, B5 A5, E3 D4, E2 D4: a pawn of each color one step from
\* its last row
PromotionPosition ==
    [state |-> [board |-> << <<"bK", ".", "bB", ".", ".">>,
                             <<".", "wp", ".", "bN", ".">>,
                             <<".", ".", ".", ".", ".">>,
                             <<".", ".", "bp", ".", ".">>,
                             <<".", ".", ".", ".", "wK">> >>,
                turn |-> "white"],
     no_capture_count |-> 0, turn_number |-> 8]

\* after B2 B3, C4 B3, C1 D2, C5 A3, D1 C1, B5 C4, B1 A3, B3 C2, A3 C4,
\* A5 A4, D2 B4, A4 B5, C1 A3, B5 B4, C4 A5, D4 D3, A3 A4, B4 A4, E1 D1,
\* C2 C1, D1 C1, A4 A5, C1 C2, D5 E3, C2 D2, E3 C2, D2 C1, A5 B5, C1 B1,
\* C2 E3, B1 A2, B5 C5, A2 A3, C5 C4, A3 B4, C4 C5, B4 C4, E3 C2, C4 B5,
\* D3 D2: 18 half-moves without a capture, the kings side by side
DrawPosition ==
    [state |-> [board |-> << <<".", "wK", "bK", ".", ".">>,
                             <<".", ".", ".", ".", ".">>,
                             <<".", ".", ".", ".", ".">>,
                             <<".", ".", "bN", "bp", ".">>,
                             <<".", ".", ".", ".", ".">> >>,
                turn |-> "white"],
     no_capture_count |-> 18, turn_number |-> 21]

Positions == {StartPosition, PromotionPosition, DrawPosition}

NoStats ==
    [states_explored |-> 0, states_by_depth |-> <<>>, total_branches |-> 0, total_nodes |-> 0]

StatsOf(ctx) ==
    [states_explored |-> ctx.states_explored, states_by_depth |-> ctx.states_by_depth,
     total_branches |-> ctx.total_branches, total_nodes |-> ctx.total_nodes]

NoCall == [op |-> "none"]

NoLast == [move |-> None, prev |-> 2, prev_count |-> 0]

\* H-H asks for no AI settings and keeps use_alpha_beta = True, heuristic = "e0";
\* the positions after typed moves are positions of an H-H game
Init ==
    \E p \in Positions, mode \in PlayModes, ab \in BOOLEAN, h \in Heuristics :
        /\ mode = "H-H" => (ab = TRUE /\ h = "e0")
        /\ p # StartPosition => mode = "H-H"
        /\ heap = [r \in Refs |-> p.state]
        /\ current_game_state = 1
        /\ no_capture_count = p.no_capture_count
        /\ turn_number = p.turn_number
        /\ play_mode = mode
        /\ use_alpha_beta = ab
        /\ heuristic = h
        /\ stats = NoStats
        /\ pc = "loop"
        /\ exception = ""
        /\ winner = ""
        /\ last = NoLast
        /\ half_moves = 0
        /\ pending = NoCall
        /\ ret = NoCall

-----------------------------------------------------------------------------
(* play() *)

\* is_ai_turn of the loop
is_ai_turn ==
    LET current_player == heap[current_game_state].turn
        player1_is_ai == play_mode \in {"AI-H", "AI-AI"}
        player2_is_ai == play_mode \in {"H-AI", "AI-AI"}
    IN  \/ (current_player = "white" /\ player1_is_ai)
        \/ (current_player = "black" /\ player2_is_ai)

\* play() ends with an exception no handler catches
Raise(e) ==
    /\ pc' = "raised"
    /\ exception' = e
    /\ UNCHANGED <<heap, current_game_state, no_capture_count, turn_number, winner,
                   last, half_moves>>

\* self.current_game_state = self.make_move(self.current_game_state, move, True)
\* and the rest of the loop body: is_game_over, game_over, turn_number;
\* m is what make_move gave
Committed(move, m) ==
    IF m.exc # ""
    THEN /\ pc' = "raised"
         /\ exception' = m.exc
         /\ heap' = m.heap
         /\ no_capture_count' = m.no_capture_count
         /\ UNCHANGED <<current_game_state, turn_number, winner, last, half_moves>>
    ELSE LET over == is_game_over(m.heap[m.val], m.no_capture_count)
         IN  /\ heap' = m.heap
             /\ current_game_state' = m.val
             /\ no_capture_count' = m.no_capture_count
             /\ last' = [move |-> move, prev |-> current_game_state,
                         prev_count |-> no_capture_count]
             /\ half_moves' = half_moves + 1
             /\ pc' = IF over.over THEN "over" ELSE "loop"
             /\ winner' = IF ~over.over THEN ""
                          ELSE IF over.winner = NoWinner THEN "draw" ELSE over.winner
             /\ turn_number' = IF m.heap[m.val].turn = "white"
                               THEN turn_number + 1 ELSE turn_number
             /\ exception' = ""

Commit(move) ==
    Committed(move, make_move(heap, current_game_state, move, TRUE, no_capture_count))

\* lines 829-846 for one text typed at the prompt: exit, asking again, an
\* exception of is_valid_move, or the move applied
Prompted(move_str) ==
    IF Typed[move_str].exit
    THEN /\ pc' = "exited"
         /\ UNCHANGED <<heap, current_game_state, no_capture_count, turn_number,
                        exception, winner, last, half_moves>>
    ELSE LET move == Typed[move_str].move
         IN  IF move = None
             THEN UNCHANGED <<heap, current_game_state, no_capture_count, turn_number,
                              pc, exception, winner, last, half_moves>>
             ELSE LET v == is_valid_move(heap[current_game_state], move)
                  IN  IF v.exc # "" THEN Raise(v.exc)
                      ELSE IF ~v.val
                      THEN UNCHANGED <<heap, current_game_state, no_capture_count,
                                       turn_number, pc, exception, winner, last,
                                       half_moves>>
                      ELSE Commit(move)

\* the human's turn: one text typed at the prompt
HumanTurn ==
    /\ pc = "loop"
    /\ ~is_ai_turn
    /\ half_moves < MaxHalfMoves
    /\ \E move_str \in Texts : Prompted(move_str)
    /\ UNCHANGED <<play_mode, use_alpha_beta, heuristic, stats, pending, ret>>

\* lines 822-826 and the rest of the loop body; r is what ai_move gave
AiMoved(r) ==
    /\ stats' = StatsOf(r.ctx)
    /\ ret' = [op |-> "ai_move", exc |-> r.exc, best_move |-> r.best_move,
               best_score |-> r.best_score, has_score |-> r.has_score]
    /\ IF r.exc # "" THEN Raise(r.exc) ELSE Commit(r.best_move)

\* the AI's turn: ai_move, then the move it returned is applied
AiTurn ==
    /\ pc = "loop"
    /\ is_ai_turn
    /\ half_moves < MaxHalfMoves
    /\ \E clock \in Clocks :
          AiMoved(ai_move([max_time |-> max_time, heuristic |-> heuristic,
                           no_capture_count |-> no_capture_count, clock |-> clock],
                          heap[current_game_state], use_alpha_beta))
    /\ UNCHANGED <<play_mode, use_alpha_beta, heuristic, pending>>

Next == HumanTurn \/ AiTurn

Spec == Init /\ [][Next]_vars

-----------------------------------------------------------------------------
(* Direct calls of one method on an object whose fields were set by hand:  *)
(* the object's state is in the variables, the call's arguments in pending *)
(* and what the call gave back in ret.                                     *)

EmptyBoard == [r \in 1 .. 5 |-> [c \in 1 .. 5 |-> "."]]

\* the object's fields before a direct call on game_state, with
\* self.no_capture_count = ncc and self.heuristic = h
Object(game_state, ncc, h, call) ==
    /\ heap = [r \in Refs |-> game_state]
    /\ current_game_state = 1
    /\ no_capture_count = ncc
    /\ turn_number = 1
    /\ play_mode = "H-H"
    /\ use_alpha_beta = TRUE
    /\ heuristic = h
    /\ stats = NoStats
    /\ pc = "call"
    /\ exception = ""
    /\ winner = ""
    /\ last = NoLast
    /\ half_moves = 0
    /\ pending = call
    /\ ret = NoCall

\* self.no_capture_count around the draw limit
Counts == {0, DrawLimit - 1, DrawLimit, DrawLimit + 1}

(* is_game_over(game_state) *)

KingSquares == {None, <<4, 4>>, <<2, 1>>, <<0, 0>>}

OtherPieces == {".", "wQ", "bp"}

\* a board with each king on a square or missing, and one more piece or none
KingBoard(wk, bk, other) ==
    LET b0 == Set(EmptyBoard, 3, 3, other)
        b1 == IF wk = None THEN b0 ELSE Set(b0, wk[1], wk[2], "wK")
    IN  IF bk = None THEN b1 ELSE Set(b1, bk[1], bk[2], "bK")

InitGameOver ==
    \E wk \in KingSquares, bk \in KingSquares, other \in OtherPieces, ncc \in Counts,
       turn \in {"white", "black"} :
        /\ (wk = bk => wk = None)
        /\ Object([board |-> KingBoard(wk, bk, other), turn |-> turn], ncc, "e0",
                  [op |-> "is_game_over"])

CallIsGameOver ==
    /\ pc = "call"
    /\ pending.op = "is_game_over"
    /\ ret' = [op |-> "is_game_over",
               result |-> is_game_over(heap[current_game_state], no_capture_count)]
    /\ pc' = "returned"
    /\ UNCHANGED <<heap, current_game_state, no_capture_count, turn_number, play_mode,
                   use_alpha_beta, heuristic, stats, exception, winner, last, half_moves,
                   pending>>

SpecGameOver == InitGameOver /\ [][CallIsGameOver]_vars

(* minimax(game_state, depth, maximizing_player) and                        *)
(* alpha_beta(game_state, depth, -inf, inf, maximizing_player), one after   *)
(* the other on the same object, with self.max_time = float('inf')          *)

\* only the two kings, in opposite corners
KingsOnly == Set(Set(EmptyBoard, 4, 4, "wK"), 0, 0, "bK")

\* the black king taken
BlackKingTaken == Set(Set(EmptyBoard, 4, 4, "wK"), 1, 1, "bp")

SearchBoards ==
    {init_board.board, KingsOnly, BlackKingTaken,
     PromotionPosition.state.board, DrawPosition.state.board}

\* the deepest direct search
MaxDepth == 2

InitSearch ==
    \E board \in SearchBoards, turn \in {"white", "black"}, ncc \in {0, DrawLimit - 1, DrawLimit},
       h \in Heuristics, depth \in 0 .. MaxDepth, maximizing_player \in BOOLEAN :
        Object([board |-> board, turn |-> turn], ncc, h,
               [op |-> "search", depth |-> depth, maximizing_player |-> maximizing_player])

\* self as a direct search reads it: start_time is now and no deadline
SearchSelf ==
    [max_time |-> Inf, heuristic |-> heuristic, no_capture_count |-> no_capture_count,
     clock |-> <<>>]

CallMinimax ==
    /\ pc = "call"
    /\ pending.op = "search"
    /\ ret' = [op |-> "search",
               minimax |-> minimax(SearchSelf, FreshCtx, heap[current_game_state],
                                   pending.depth, pending.maximizing_player),
               alpha_beta |-> NoCall]
    /\ heap' = search_heap(SearchSelf, FreshCtx, heap, current_game_state, pending.depth,
                            pending.maximizing_player)
    /\ pc' = "minimax returned"
    /\ UNCHANGED <<current_game_state, no_capture_count, turn_number, play_mode,
                   use_alpha_beta, heuristic, stats, exception, winner, last, half_moves,
                   pending>>

CallAlphaBeta ==
    /\ pc = "minimax returned"
    /\ ret' = [ret EXCEPT !.alpha_beta =
                  alpha_beta(SearchSelf, FreshCtx, heap[current_game_state],
                             pending.depth, -Inf, Inf, pending.maximizing_player)]
    /\ heap' = search_heap(SearchSelf, FreshCtx, heap, current_game_state, pending.depth,
                            pending.maximizing_player)
    /\ pc' = "returned"
    /\ UNCHANGED <<current_game_state, no_capture_count, turn_number, play_mode,
                   use_alpha_beta, heuristic, stats, exception, winner, last, half_moves,
                   pending>>

NextSearch == CallMinimax \/ CallAlphaBeta

SpecSearch == InitSearch /\ [][NextSearch]_vars

(* generate_rook_moves, generate_bishop_moves and generate_queen_moves      *)
(* (position, board)                                                        *)

\* where the sliding piece stands: a corner, an edge, the centre, a square
\* next to an edge, the opposite corner
SliderSquares == {<<0, 0>>, <<0, 2>>, <<2, 2>>, <<3, 1>>, <<4, 4>>}

BlockerPieces == {"wN", "bN"}

SliderOps == {"generate_rook_moves", "generate_bishop_moves", "generate_queen_moves"}

\* the sliding piece of a color for each generator (the rook pattern is a queen's)
SliderPiece(op, color) ==
    IF op = "generate_bishop_moves"
    THEN (IF color = "w" THEN "wB" ELSE "bB")
    ELSE (IF color = "w" THEN "wQ" ELSE "bQ")

InitSliders ==
    \E op \in SliderOps, position \in SliderSquares, color \in {"w", "b"},
       s1 \in Range5 \X Range5, s2 \in Range5 \X Range5,
       p1 \in BlockerPieces, p2 \in BlockerPieces :
        /\ s1 # position /\ s2 # position
        /\ s1[1] * 5 + s1[2] < s2[1] * 5 + s2[2]
        /\ Object([board |-> Set(Set(Set(EmptyBoard, s1[1], s1[2], p1), s2[1], s2[2], p2),
                                 position[1], position[2], SliderPiece(op, color)),
                   turn |-> IF color = "w" THEN "white" ELSE "black"],
                  0, "e0", [op |-> op, position |-> position])

\* the call returned moves
ReturnMoves(moves) ==
    /\ ret' = [op |-> pending.op, moves |-> moves]
    /\ pc' = "returned"
    /\ UNCHANGED <<heap, current_game_state, no_capture_count, turn_number, play_mode,
                   use_alpha_beta, heuristic, stats, exception, winner, last, half_moves,
                   pending>>

CallRookMoves ==
    /\ pc = "call"
    /\ pending.op = "generate_rook_moves"
    /\ ReturnMoves(generate_rook_moves(pending.position, heap[current_game_state].board))

CallBishopMoves ==
    /\ pc = "call"
    /\ pending.op = "generate_bishop_moves"
    /\ ReturnMoves(generate_bishop_moves(pending.position, heap[current_game_state].board))

CallQueenMoves ==
    /\ pc = "call"
    /\ pending.op = "generate_queen_moves"
    /\ ReturnMoves(generate_queen_moves(pending.position, heap[current_game_state].board))

NextSliders == CallRookMoves \/ CallBishopMoves \/ CallQueenMoves

SpecSliders == InitSliders /\ [][NextSliders]_vars

(* generate_pawn_moves(piece, position, board)                              *)

\* what a square next to the pawn holds
NeighbourPieces == {".", "wN", "bN"}

\* board with v on (row, col) when that is a square of the board
Put(board, row, col, v) == IF OnBoard(row, col) THEN Set(board, row, col, v) ELSE board

\* the rows a pawn of a color stands on: its own last row makes it a queen
PawnRows(color) == IF color = "w" THEN 1 .. 4 ELSE 0 .. 3

\* a pawn on position, the three squares ahead of it holding left, ahead and
\* right, the squares beside and behind it holding side
PawnBoard(color, position, left, ahead, right, side) ==
    LET row == position[1]
        col == position[2]
        direction == IF color = "w" THEN -1 ELSE 1
        b1 == Put(Put(Put(EmptyBoard, row + direction, col - 1, left),
                      row + direction, col, ahead), row + direction, col + 1, right)
        b2 == Put(Put(b1, row, col - 1, side), row, col + 1, side)
        b3 == Put(Put(Put(b2, row - direction, col - 1, side),
                      row - direction, col, side), row - direction, col + 1, side)
    IN  Set(b3, row, col, IF color = "w" THEN "wp" ELSE "bp")

InitPawn ==
    \E color \in {"w", "b"}, position \in Range5 \X Range5, left \in NeighbourPieces,
       ahead \in NeighbourPieces, right \in NeighbourPieces, side \in NeighbourPieces :
        /\ position[1] \in PawnRows(color)
        /\ Object([board |-> PawnBoard(color, position, left, ahead, right, side),
                   turn |-> IF color = "w" THEN "white" ELSE "black"],
                  0, "e0", [op |-> "generate_pawn_moves", position |-> position])

CallPawnMoves ==
    /\ pc = "call"
    /\ pending.op = "generate_pawn_moves"
    /\ ReturnMoves(generate_pawn_moves(
           Get(heap[current_game_state].board, pending.position[1], pending.position[2]),
           pending.position, heap[current_game_state].board))

SpecPawn == InitPawn /\ [][CallPawnMoves]_vars

(* is_valid_move(game_state, move) and valid_moves(game_state)              *)

\* the moves asked about: from any square of the board to any square of the
\* board or one step off it
AskedMoves == (Range5 \X Range5) \X ((-1 .. 5) \X (-1 .. 5))

InitLegal ==
    \E board \in SearchBoards, turn \in {"white", "black"} :
        \/ \E move \in AskedMoves :
               Object([board |-> board, turn |-> turn], 0, "e0",
                      [op |-> "is_valid_move", move |-> move])
        \/ Object([board |-> board, turn |-> turn], 0, "e0", [op |-> "valid_moves"])

CallIsValidMove ==
    /\ pc = "call"
    /\ pending.op = "is_valid_move"
    /\ ret' = [op |-> "is_valid_move",
               result |-> is_valid_move(heap[current_game_state], pending.move)]
    /\ pc' = "returned"
    /\ UNCHANGED <<heap, current_game_state, no_capture_count, turn_number, play_mode,
                   use_alpha_beta, heuristic, stats, exception, winner, last, half_moves,
                   pending>>

CallValidMoves ==
    /\ pc = "call"
    /\ pending.op = "valid_moves"
    /\ ret' = [op |-> "valid_moves", result |-> valid_moves(heap[current_game_state])]
    /\ pc' = "returned"
    /\ UNCHANGED <<heap, current_game_state, no_capture_count, turn_number, play_mode,
                   use_alpha_beta, heuristic, stats, exception, winner, last, half_moves,
                   pending>>

NextLegal == CallIsValidMove \/ CallValidMoves

SpecLegal == InitLegal /\ [][NextLegal]_vars

(* ai_move() called on an object whose statistics an earlier call left,     *)
(* next to the direct searches                                              *)

\* the statistics an earlier call of ai_move left on the object: none, or
\* those of a call that visited one state
EarlierStats ==
    {NoStats,
     [states_explored |-> 1, states_by_depth |-> (1 :> 1), total_branches |-> 0,
      total_nodes |-> 0]}

InitAiMove ==
    \E board \in SearchBoards, turn \in {"white", "black"}, ncc \in {0, DrawLimit},
       h \in Heuristics, ab \in BOOLEAN, clock \in Clocks, earlier \in EarlierStats :
        /\ heap = [r \in Refs |-> [board |-> board, turn |-> turn]]
        /\ current_game_state = 1
        /\ no_capture_count = ncc
        /\ turn_number = 1
        /\ play_mode = "AI-AI"
        /\ use_alpha_beta = ab
        /\ heuristic = h
        /\ stats = earlier
        /\ pc = "call"
        /\ exception = ""
        /\ winner = ""
        /\ last = NoLast
        /\ half_moves = 0
        /\ pending = [op |-> "ai_move", clock |-> clock, earlier |-> earlier]
        /\ ret = NoCall

\* self as ai_move reads it, with the clock readings of the call
AiSelf ==
    [max_time |-> max_time, heuristic |-> heuristic, no_capture_count |-> no_capture_count,
     clock |-> pending.clock]

\* the call ended; r is what ai_move gave
AiReturned(r) ==
    /\ stats' = StatsOf(r.ctx)
    /\ ret' = [op |-> "ai_move", exc |-> r.exc, best_move |-> r.best_move,
               best_score |-> r.best_score, has_score |-> r.has_score,
               depth |-> r.depth, reads |-> r.ctx.reads]
    /\ heap' = ai_move_heap(AiSelf, heap, current_game_state)
    /\ pc' = "returned"
    /\ UNCHANGED <<current_game_state, no_capture_count, turn_number, play_mode,
                   use_alpha_beta, heuristic, exception, winner, last, half_moves, pending>>

CallAiMove ==
    /\ pc = "call"
    /\ pending.op = "ai_move"
    /\ AiReturned(ai_move(AiSelf, heap[current_game_state], use_alpha_beta))

InitAi == InitAiMove \/ InitSearch

NextAi == CallAiMove \/ CallMinimax \/ CallAlphaBeta

SpecAi == InitAi /\ [][NextAi]_vars

(* parse_input(move)                                                        *)

InitParse ==
    \E move_str \in Texts :
        Object(init_board, 0, "e0", [op |-> "parse_input", move |-> move_str])

CallParseInput ==
    /\ pc = "call"
    /\ pending.op = "parse_input"
    /\ ret' = [op |-> "parse_input", result |-> parse_input(pending.move)]
    /\ pc' = "returned"
    /\ UNCHANGED <<heap, current_game_state, no_capture_count, turn_number, play_mode,
                   use_alpha_beta, heuristic, stats, exception, winner, last, half_moves,
                   pending>>

SpecParse == InitParse /\ [][CallParseInput]_vars

(* evaluate_board(game_state)                                               *)

\* the boards evaluated: those of the searches, and every board with up to
\* three pieces of any kind on a corner, the centre and a square of the last row
EvalBoards ==
    SearchBoards \cup
    {Set(Set(Set(EmptyBoard, 0, 0, a), 2, 2, b), 4, 3, c) :
        a \in Pieces \cup {"."}, b \in Pieces \cup {"."}, c \in Pieces \cup {"."}}

InitEval ==
    \E board \in EvalBoards, turn \in {"white", "black"}, h \in Heuristics :
        Object([board |-> board, turn |-> turn], 0, h, [op |-> "evaluate_board"])

CallEvaluateBoard ==
    /\ pc = "call"
    /\ pending.op = "evaluate_board"
    /\ ret' = [op |-> "evaluate_board",
               result |-> evaluate_board(heuristic, heap[current_game_state])]
    /\ pc' = "returned"
    /\ UNCHANGED <<heap, current_game_state, no_capture_count, turn_number, play_mode,
                   use_alpha_beta, heuristic, stats, exception, winner, last, half_moves,
                   pending>>

SpecEval == InitEval /\ [][CallEvaluateBoard]_vars

-----------------------------------------------------------------------------
(* Whole games of play() between two humans, every text typed in turn.     *)

\* the texts of 199 half-moves from the starting layout: black captures at
\* the half-moves 20, 40, 60, 80 and 100, white at 119, 139, 159, 179 and
\* 199, the moves between are to empty squares; the two kings are left
GameOpening ==
    << <<"B", "1", " ", "A", "3">>, <<"A", "5", " ", "A", "4">>, <<"A", "3", " ", "B", "1">>, <<"A", "4", " ", "A", "5">>,
       <<"B", "1", " ", "A", "3">>, <<"A", "5", " ", "A", "4">>, <<"A", "3", " ", "B", "1">>, <<"A", "4", " ", "A", "5">>,
       <<"B", "1", " ", "A", "3">>, <<"A", "5", " ", "A", "4">>, <<"A", "3", " ", "B", "1">>, <<"A", "4", " ", "A", "5">>,
       <<"B", "1", " ", "A", "3">>, <<"A", "5", " ", "A", "4">>, <<"A", "3", " ", "B", "1">>, <<"A", "4", " ", "A", "5">>,
       <<"B", "2", " ", "B", "3">>, <<"A", "5", " ", "A", "4">>, <<"B", "3", " ", "B", "4">>, <<"B", "5", " ", "B", "4">>,
       <<"B", "1", " ", "A", "3">>, <<"D", "5", " ", "C", "3">>, <<"A", "3", " ", "B", "1">>, <<"C", "3", " ", "D", "5">>,
       <<"B", "1", " ", "A", "3">>, <<"D", "5", " ", "C", "3">>, <<"A", "3", " ", "B", "1">>, <<"C", "3", " ", "D", "5">>,
       <<"B", "1", " ", "A", "3">>, <<"D", "5", " ", "C", "3">>, <<"A", "3", " ", "B", "1">>, <<"C", "3", " ", "D", "5">>,
       <<"B", "1", " ", "A", "3">>, <<"D", "5", " ", "C", "3">>, <<"A", "3", " ", "B", "1">>, <<"C", "3", " ", "D", "5">>,
       <<"C", "2", " ", "C", "3">>, <<"D", "5", " ", "E", "3">>, <<"B", "1", " ", "A", "3">>, <<"A", "4", " ", "A", "3">>,
       <<"C", "1", " ", "B", "2">>, <<"B", "4", " ", "B", "5">>, <<"B", "2", " ", "C", "1">>, <<"B", "5", " ", "B", "4">>,
       <<"C", "1", " ", "B", "2">>, <<"B", "4", " ", "B", "5">>, <<"B", "2", " ", "C", "1">>, <<"B", "5", " ", "B", "4">>,
       <<"C", "1", " ", "B", "2">>, <<"B", "4", " ", "B", "5">>, <<"B", "2", " ", "C", "1">>, <<"B", "5", " ", "B", "4">>,
       <<"C", "1", " ", "B", "2">>, <<"B", "4", " ", "B", "5">>, <<"B", "2", " ", "C", "1">>, <<"B", "5", " ", "B", "4">>,
       <<"C", "1", " ", "B", "2">>, <<"B", "4", " ", "B", "5">>, <<"B", "2", " ", "A", "1">>, <<"D", "4", " ", "C", "3">>,
       <<"A", "1", " ", "B", "2">>, <<"B", "5", " ", "B", "4">>, <<"B", "2", " ", "A", "1">>, <<"B", "4", " ", "B", "5">>,
       <<"A", "1", " ", "B", "2">>, <<"B", "5", " ", "B", "4">>, <<"B", "2", " ", "A", "1">>, <<"B", "4", " ", "B", "5">>,
       <<"A", "1", " ", "B", "2">>, <<"B", "5", " ", "B", "4">>, <<"B", "2", " ", "A", "1">>, <<"B", "4", " ", "B", "5">>,
       <<"A", "1", " ", "B", "2">>, <<"B", "5", " ", "B", "4">>, <<"B", "2", " ", "A", "1">>, <<"B", "4", " ", "B", "5">>,
       <<"A", "1", " ", "B", "2">>, <<"B", "5", " ", "B", "4">>, <<"B", "2", " ", "A", "1">>, <<"E", "3", " ", "D", "1">>,
       <<"A", "1", " ", "B", "2">>, <<"C", "5", " ", "D", "4">>, <<"B", "2", " ", "A", "1">>, <<"D", "4", " ", "C", "5">>,
       <<"A", "1", " ", "B", "2">>, <<"C", "5", " ", "D", "4">>, <<"B", "2", " ", "A", "1">>, <<"D", "4", " ", "C", "5">>,
       <<"A", "1", " ", "B", "2">>, <<"C", "5", " ", "D", "4">>, <<"B", "2", " ", "A", "1">>, <<"D", "4", " ", "C", "5">>,
       <<"A", "1", " ", "B", "2">>, <<"C", "5", " ", "D", "4">>, <<"B", "2", " ", "A", "1">>, <<"D", "4", " ", "C", "5">>,
       <<"A", "1", " ", "B", "2">>, <<"C", "5", " ", "D", "4">>, <<"E", "1", " ", "D", "2">>, <<"B", "4", " ", "B", "2">>,
       <<"D", "2", " ", "D", "3">>, <<"D", "4", " ", "C", "5">>, <<"D", "3", " ", "D", "2">>, <<"C", "5", " ", "D", "4">>,
       <<"D", "2", " ", "D", "3">>, <<"D", "4", " ", "C", "5">>, <<"D", "3", " ", "D", "2">>, <<"C", "5", " ", "D", "4">>,
       <<"D", "2", " ", "D", "3">>, <<"D", "4", " ", "C", "5">>, <<"D", "3", " ", "D", "2">>, <<"C", "5", " ", "D", "4">>,
       <<"D", "2", " ", "D", "3">>, <<"D", "4", " ", "C", "5">>, <<"D", "3", " ", "D", "2">>, <<"C", "5", " ", "D", "4">>,
       <<"D", "2", " ", "D", "3">>, <<"D", "4", " ", "C", "5">>, <<"D", "3", " ", "C", "4">>, <<"C", "5", " ", "B", "4">>,
       <<"C", "4", " ", "B", "5">>, <<"B", "4", " ", "C", "5">>, <<"B", "5", " ", "C", "4">>, <<"C", "5", " ", "B", "4">>,
       <<"C", "4", " ", "B", "5">>, <<"B", "4", " ", "C", "5">>, <<"B", "5", " ", "C", "4">>, <<"C", "5", " ", "B", "4">>,
       <<"C", "4", " ", "B", "5">>, <<"B", "4", " ", "C", "5">>, <<"B", "5", " ", "C", "4">>, <<"C", "5", " ", "B", "4">>,
       <<"C", "4", " ", "B", "5">>, <<"B", "4", " ", "C", "5">>, <<"B", "5", " ", "C", "4">>, <<"C", "5", " ", "B", "4">>,
       <<"C", "4", " ", "B", "5">>, <<"B", "4", " ", "A", "5">>, <<"B", "5", " ", "A", "5">>, <<"A", "3", " ", "A", "4">>,
       <<"A", "5", " ", "B", "5">>, <<"A", "4", " ", "A", "3">>, <<"B", "5", " ", "A", "5">>, <<"A", "3", " ", "A", "4">>,
       <<"A", "5", " ", "B", "5">>, <<"A", "4", " ", "A", "3">>, <<"B", "5", " ", "A", "5">>, <<"A", "3", " ", "A", "4">>,
       <<"A", "5", " ", "B", "5">>, <<"A", "4", " ", "A", "3">>, <<"B", "5", " ", "A", "5">>, <<"A", "3", " ", "A", "4">>,
       <<"A", "5", " ", "B", "5">>, <<"A", "4", " ", "A", "3">>, <<"B", "5", " ", "A", "5">>, <<"A", "3", " ", "A", "4">>,
       <<"A", "5", " ", "B", "5">>, <<"B", "2", " ", "B", "4">>, <<"B", "5", " ", "B", "4">>, <<"A", "4", " ", "A", "5">>,
       <<"B", "4", " ", "B", "5">>, <<"A", "5", " ", "A", "4">>, <<"B", "5", " ", "B", "4">>, <<"A", "4", " ", "A", "5">>,
       <<"B", "4", " ", "B", "5">>, <<"A", "5", " ", "A", "4">>, <<"B", "5", " ", "B", "4">>, <<"A", "4", " ", "A", "5">>,
       <<"B", "4", " ", "B", "5">>, <<"A", "5", " ", "A", "4">>, <<"B", "5", " ", "B", "4">>, <<"A", "4", " ", "A", "5">>,
       <<"B", "4", " ", "B", "5">>, <<"A", "5", " ", "A", "4">>, <<"B", "5", " ", "B", "4">>, <<"A", "4", " ", "A", "5">>,
       <<"B", "4", " ", "C", "4">>, <<"A", "5", " ", "B", "5">>, <<"C", "4", " ", "C", "3">>, <<"B", "5", " ", "A", "5">>,
       <<"C", "3", " ", "B", "4">>, <<"A", "5", " ", "B", "5">>, <<"B", "4", " ", "C", "3">>, <<"B", "5", " ", "A", "5">>,
       <<"C", "3", " ", "B", "4">>, <<"A", "5", " ", "B", "5">>, <<"B", "4", " ", "C", "3">>, <<"B", "5", " ", "A", "5">>,
       <<"C", "3", " ", "B", "4">>, <<"A", "5", " ", "B", "5">>, <<"B", "4", " ", "C", "3">>, <<"B", "5", " ", "A", "5">>,
       <<"C", "3", " ", "B", "4">>, <<"A", "5", " ", "B", "5">>, <<"B", "4", " ", "C", "3">>, <<"B", "5", " ", "A", "5">>,
       <<"C", "3", " ", "B", "4">>, <<"D", "1", " ", "C", "3">>, <<"B", "4", " ", "C", "3">> >>

\* the games that begin with it: twenty more moves of the kings to empty
\* squares, or nineteen and then white's king takes black's
LongGames ==
    << GameOpening \o
        << <<"A", "5", " ", "B", "5">>, <<"C", "3", " ", "B", "4">>, <<"B", "5", " ", "A", "5">>, <<"B", "4", " ", "C", "3">>,
           <<"A", "5", " ", "B", "5">>, <<"C", "3", " ", "B", "4">>, <<"B", "5", " ", "A", "5">>, <<"B", "4", " ", "C", "3">>,
           <<"A", "5", " ", "B", "5">>, <<"C", "3", " ", "B", "4">>, <<"B", "5", " ", "A", "5">>, <<"B", "4", " ", "C", "3">>,
           <<"A", "5", " ", "B", "5">>, <<"C", "3", " ", "B", "4">>, <<"B", "5", " ", "A", "5">>, <<"B", "4", " ", "C", "3">>,
           <<"A", "5", " ", "B", "5">>, <<"C", "3", " ", "B", "4">>, <<"B", "5", " ", "A", "5">>, <<"B", "4", " ", "C", "3">> >>,
      GameOpening \o
        << <<"A", "5", " ", "B", "5">>, <<"C", "3", " ", "B", "4">>, <<"B", "5", " ", "A", "5">>, <<"B", "4", " ", "C", "3">>,
           <<"A", "5", " ", "B", "5">>, <<"C", "3", " ", "B", "4">>, <<"B", "5", " ", "A", "5">>, <<"B", "4", " ", "C", "3">>,
           <<"A", "5", " ", "B", "5">>, <<"C", "3", " ", "B", "4">>, <<"B", "5", " ", "A", "5">>, <<"B", "4", " ", "C", "3">>,
           <<"A", "5", " ", "B", "5">>, <<"C", "3", " ", "B", "4">>, <<"B", "5", " ", "A", "5">>, <<"B", "4", " ", "C", "3">>,
           <<"A", "5", " ", "B", "5">>, <<"C", "3", " ", "B", "4">>, <<"B", "5", " ", "A", "5">>, <<"B", "4", " ", "A", "5">> >> >>

\* MiniChess(play_mode="H-H") and the first statements of play(); pending
\* holds how many texts were typed and which games begin with them
InitLongGame ==
    /\ heap = [r \in Refs |-> StartPosition.state]
    /\ current_game_state = 1
    /\ no_capture_count = StartPosition.no_capture_count
    /\ turn_number = StartPosition.turn_number
    /\ play_mode = "H-H"
    /\ use_alpha_beta = TRUE
    /\ heuristic = "e0"
    /\ stats = NoStats
    /\ pc = "loop"
    /\ exception = ""
    /\ winner = ""
    /\ last = NoLast
    /\ half_moves = 0
    /\ pending = [op |-> "script", at |-> 0, games |-> DOMAIN LongGames]
    /\ ret = NoCall

\* the human's turn with the next text of one of the games typed at the prompt
ScriptTurn ==
    /\ pc = "loop"
    /\ ~is_ai_turn
    /\ pending.op = "script"
    /\ pending.at = half_moves
    /\ \E game \in pending.games :
          /\ pending.at < Len(LongGames[game])
          /\ Prompted(LongGames[game][pending.at + 1])
          /\ pending' = [pending EXCEPT
                            !.at = @ + 1,
                            !.games = {g \in @ : LongGames[g][pending.at + 1]
                                                    = LongGames[game][pending.at + 1]}]
    /\ UNCHANGED <<play_mode, use_alpha_beta, heuristic, stats, ret>>

\* games between two humans: any texts for the first half-moves, or a whole
\* game typed to its end
SpecGames == InitLongGame /\ [][HumanTurn \/ ScriptTurn]_vars

-----------------------------------------------------------------------------
(* Properties *)

\* some square of board holds piece
OnSomeSquare(board, piece) ==
    \E sq \in Range5 \X Range5 : Get(board, sq[1], sq[2]) = piece

\* C1: for every game state, depth >= 1 and heuristic, with no deadline,
\* alpha_beta with the window (-infinity, +infinity) returns exactly the best
\* score minimax returns on the same state, depth and maximizing flag.
C1_AlphaBetaScoreIsMinimaxScore ==
    (pc = "returned" /\ pending.op = "search" /\ pending.depth >= 1) =>
        /\ ret.minimax.exc = ""
        /\ ret.alpha_beta.exc = ""
        /\ ret.alpha_beta.score = ret.minimax.score

\* C3: on the board with only a white King at (4,4) and a black King at (0,0),
\* white to move, a depth-2 search (minimax or alpha-beta, any heuristic)
\* finishes without an error and returns a legal white king move with a score
\* strictly between -999 and 999 (-9990 and 9990 tenths).
C3_TwoKingsSearchReturnsKingMove ==
    (/\ pc = "returned"
     /\ pending.op = "search"
     /\ heap[current_game_state] = [board |-> KingsOnly, turn |-> "white"]
     /\ no_capture_count = 0
     /\ pending.depth = 2
     /\ pending.maximizing_player) =>
        \A r \in {ret.minimax, ret.alpha_beta} :
            /\ r.exc = ""
            /\ InSeq(r.move, generate_king_moves(<<4, 4>>, KingsOnly))
            /\ r.score > -9990
            /\ r.score < 9990

\* C4: make_move leaves the state it is given as it was, board and side to
\* move, and returns another object: every step keeps the dictionary that
\* current_game_state referred to, and a step that applies a move makes
\* current_game_state refer to a different object.
C4_MakeMoveKeepsItsArgument ==
    [][/\ heap'[current_game_state] = heap[current_game_state]
       /\ half_moves' # half_moves => current_game_state' # current_game_state]_vars

\* a move was applied, and the state it was applied to is still there, unlike
\* the state that came out
C4_Witness ==
    /\ half_moves >= 1
    /\ last.prev # current_game_state
    /\ heap[last.prev].board # heap[current_game_state].board
    /\ heap[last.prev].turn # heap[current_game_state].turn

\* C5: a step that applies a move sets the no-capture counter to 0 when the
\* destination square was occupied before the move and to its old value plus
\* 1 otherwise; every other step leaves the counter alone.
C5_CounterFollowsCaptures ==
    [][IF half_moves' # half_moves
       THEN no_capture_count' =
                IF Get(heap[current_game_state].board,
                       last'.move[2][1], last'.move[2][2]) # "."
                THEN 0 ELSE no_capture_count + 1
       ELSE no_capture_count' = no_capture_count]_vars

\* a capture brought the counter from 1 back to 0
C5_Witness ==
    /\ half_moves = 2
    /\ last.prev_count = 1
    /\ no_capture_count = 0
    /\ Get(heap[last.prev].board, last.move[2][1], last.move[2][2]) # "."

\* C6: with both kings on the board the game is a draw exactly when the
\* no-capture counter has reached 20: play goes on only below 20, the counter
\* never passes 20, and a game over as a draw has the counter at 20.
C6_DrawExactlyAtTwenty ==
    /\ no_capture_count <= 20
    /\ pc = "loop" => no_capture_count < 20
    /\ (/\ OnSomeSquare(heap[current_game_state].board, "wK")
        /\ OnSomeSquare(heap[current_game_state].board, "bK")) =>
           ((pc = "over" /\ winner = "draw") <=> no_capture_count >= 20)
    /\ winner = "draw" =>
           /\ OnSomeSquare(heap[current_game_state].board, "wK")
           /\ OnSomeSquare(heap[current_game_state].board, "bK")

\* the 20th half-move without a capture ended the game as a draw
C6_Witness ==
    /\ pc = "over"
    /\ winner = "draw"
    /\ last.prev_count = 19
    /\ no_capture_count = 20

\* C7: is_game_over gives a black win when no white King is on the board,
\* else a white win when no black King is on the board; only with both kings
\* is it a draw (counter >= 20) or not over.
C7_KingsBeforeDraw ==
    (pc = "returned" /\ ret.op = "is_game_over") =>
        IF ~OnSomeSquare(heap[current_game_state].board, "wK")
        THEN ret.result = [over |-> TRUE, winner |-> "black"]
        ELSE IF ~OnSomeSquare(heap[current_game_state].board, "bK")
        THEN ret.result = [over |-> TRUE, winner |-> "white"]
        ELSE ret.result = [over |-> no_capture_count >= 20, winner |-> NoWinner]

\* a king is missing while the counter is at 20 or more, and the other color won
C7_Witness ==
    /\ pc = "returned"
    /\ ret.op = "is_game_over"
    /\ no_capture_count >= 20
    /\ ~OnSomeSquare(heap[current_game_state].board, "bK")
    /\ OnSomeSquare(heap[current_game_state].board, "wK")
    /\ ret.result = [over |-> TRUE, winner |-> "white"]

\* the last applied move took a pawn to its last row
LastMovePromotes ==
    /\ last.move # None
    /\ Type(Get(heap[last.prev].board, last.move[1][1], last.move[1][2])) = "p"
    /\ last.move[2][1] =
          IF Get(heap[last.prev].board, last.move[1][1], last.move[1][2]) = "wp"
          THEN 0 ELSE 4

\* C8: no white Pawn stands on row 0 and no black Pawn on row 4; after a Pawn
\* move to that row the destination holds a Queen of the Pawn's color, the
\* source is empty and the color has one Pawn less.
C8_PawnsPromote ==
    /\ \A c \in Range5 :
          /\ Get(heap[current_game_state].board, 0, c) # "wp"
          /\ Get(heap[current_game_state].board, 4, c) # "bp"
    /\ LastMovePromotes =>
          LET before == heap[last.prev].board
              after == heap[current_game_state].board
              pawn == Get(before, last.move[1][1], last.move[1][2])
          IN  /\ Get(after, last.move[2][1], last.move[2][2]) =
                     (IF pawn = "wp" THEN "wQ" ELSE "bQ")
              /\ Get(after, last.move[1][1], last.move[1][2]) = "."
              /\ Count(after, pawn) = Count(before, pawn) - 1

\* a white pawn has just moved to row 0 and a white queen stands there
C8_Witness ==
    /\ LastMovePromotes
    /\ Get(heap[last.prev].board, last.move[1][1], last.move[1][2]) = "wp"
    /\ Get(heap[current_game_state].board, last.move[2][1], last.move[2][2]) = "wQ"

\* C9: every move the generator produces for a piece of the current state has
\* its destination on the board, away from the piece's square and not on a
\* piece of the same color.  The positions are all those list indexing
\* accepts (-5..4), as is_valid_move hands them over: a position given by
\* indices from 0 has its destinations given so too, and any position has
\* destinations that name squares of the board.
C9_GeneratedDestinations ==
    \A row \in -5 .. 4, col \in -5 .. 4 :
        LET board == heap[current_game_state].board
            piece == Get(board, row, col)
            moves == generate_moves_for_piece(piece, <<row, col>>, board)
        IN  piece # "." =>
                \A i \in 1 .. Len(moves) :
                    /\ InRange(moves[i][2][1]) /\ InRange(moves[i][2][2])
                    /\ OnBoard(row, col) => OnBoard(moves[i][2][1], moves[i][2][2])
                    /\ <<Norm(moves[i][2][1]), Norm(moves[i][2][2])>>
                           # <<Norm(row), Norm(col)>>
                    /\ Color(Get(board, moves[i][2][1], moves[i][2][2])) # Color(piece)

\* after two half-moves a king has moves although a piece of its own color
\* stands next to it, and some generated move lands on an opponent's piece
C9_Witness ==
    /\ half_moves = 2
    /\ \E sq \in Range5 \X Range5 :
          LET board == heap[current_game_state].board
              piece == Get(board, sq[1], sq[2])
          IN  /\ Type(piece) = "K"
              /\ generate_moves_for_piece(piece, sq, board) # <<>>
              /\ \E d \in {-1, 0, 1} \X {-1, 0, 1} :
                    /\ OnBoard(sq[1] + d[1], sq[2] + d[2])
                    /\ d # <<0, 0>>
                    /\ Color(Get(board, sq[1] + d[1], sq[2] + d[2])) = Color(piece)
    /\ \E sq \in Range5 \X Range5 :
          LET board == heap[current_game_state].board
              piece == Get(board, sq[1], sq[2])
              moves == generate_moves_for_piece(piece, sq, board)
          IN  /\ piece # "."
              /\ \E i \in 1 .. Len(moves) :
                    Get(board, moves[i][2][1], moves[i][2][2]) # "."

\* the squares of the ray from position in direction d up to the first
\* occupied square, that square included when it holds the other color
RayDestinations(board, position, d) ==
    {sq \in Range5 \X Range5 :
        \E k \in 1 .. 4 :
            /\ sq = <<position[1] + k * d[1], position[2] + k * d[2]>>
            /\ \A j \in 1 .. k - 1 :
                  Get(board, position[1] + j * d[1], position[2] + j * d[2]) = "."
            /\ \/ Get(board, sq[1], sq[2]) = "."
               \/ Color(Get(board, sq[1], sq[2]))
                      # Color(Get(board, position[1], position[2]))}

Orthogonals == {<<-1, 0>>, <<1, 0>>, <<0, -1>>, <<0, 1>>}
Diagonals == {<<-1, -1>>, <<-1, 1>>, <<1, -1>>, <<1, 1>>}

\* C10: the destinations generated for a rook pattern, a Bishop or a Queen are
\* exactly, on each of its rays, the empty squares before the first occupied
\* square plus that square when it holds the other color; the Queen's rays are
\* the 4 orthogonal and the 4 diagonal ones.  Every move starts at the piece
\* and no destination comes twice.
C10_SlidingRays ==
    (pc = "returned" /\ ret.op \in SliderOps) =>
        LET board == heap[current_game_state].board
            rays == CASE ret.op = "generate_rook_moves" -> Orthogonals
                      [] ret.op = "generate_bishop_moves" -> Diagonals
                      [] OTHER -> Orthogonals \cup Diagonals
            destinations == {ret.moves[i][2] : i \in 1 .. Len(ret.moves)}
        IN  /\ \A i \in 1 .. Len(ret.moves) : ret.moves[i][1] = pending.position
            /\ destinations =
                   UNION {RayDestinations(board, pending.position, d) : d \in rays}
            /\ Cardinality(destinations) = Len(ret.moves)

\* a white queen in the centre with a black knight next to it and a white
\* knight behind that one: the black knight's square is a destination, the
\* square behind it is not, and neither is the other white knight's
C10_Witness ==
    /\ pc = "returned"
    /\ ret.op = "generate_queen_moves"
    /\ pending.position = <<2, 2>>
    /\ Get(heap[current_game_state].board, 2, 2) = "wQ"
    /\ Get(heap[current_game_state].board, 2, 3) = "bN"
    /\ Get(heap[current_game_state].board, 2, 4) = "wN"
    /\ InSeq(<<<<2, 2>>, <<2, 3>>>>, ret.moves)
    /\ ~InSeq(<<<<2, 2>>, <<2, 4>>>>, ret.moves)
    /\ InSeq(<<<<2, 2>>, <<0, 0>>>>, ret.moves)

\* C11: the moves generated for a Pawn are exactly the step one row forward
\* (white toward row 0, black toward row 4) when that square is on the board
\* and empty, and the step to each forward diagonal square that is on the
\* board and holds a piece of the other color: no step onto an occupied
\* square ahead, none onto an empty diagonal, none of two rows, backward or
\* sideways.  Every move starts at the Pawn and none comes twice.
C11_PawnMoves ==
    (pc = "returned" /\ ret.op = "generate_pawn_moves") =>
        LET board == heap[current_game_state].board
            row == pending.position[1]
            col == pending.position[2]
            pawn == Get(board, row, col)
            forward == IF pawn = "wp" THEN row - 1 ELSE row + 1
            step == {sq \in {<<forward, col>>} :
                        OnBoard(sq[1], sq[2]) /\ Get(board, sq[1], sq[2]) = "."}
            takes == {sq \in {<<forward, col - 1>>, <<forward, col + 1>>} :
                         /\ OnBoard(sq[1], sq[2])
                         /\ Color(Get(board, sq[1], sq[2])) \notin {".", Color(pawn)}}
            destinations == {ret.moves[i][2] : i \in 1 .. Len(ret.moves)}
        IN  /\ \A i \in 1 .. Len(ret.moves) : ret.moves[i][1] = pending.position
            /\ destinations = step \cup takes
            /\ Cardinality(destinations) = Len(ret.moves)

\* a black pawn with a black knight ahead, a white knight on its left forward
\* diagonal and nothing on the right one, white knights beside and behind it:
\* its one move is the capture
C11_Witness ==
    /\ pc = "returned"
    /\ ret.op = "generate_pawn_moves"
    /\ pending.position = <<1, 2>>
    /\ Get(heap[current_game_state].board, 1, 2) = "bp"
    /\ Get(heap[current_game_state].board, 2, 2) = "bN"
    /\ Get(heap[current_game_state].board, 2, 1) = "wN"
    /\ Get(heap[current_game_state].board, 2, 3) = "."
    /\ Get(heap[current_game_state].board, 1, 1) = "wN"
    /\ Get(heap[current_game_state].board, 0, 2) = "wN"
    /\ ret.moves = <<<<<<1, 2>>, <<2, 1>>>>>>

\* the number of pieces on board
PieceCount(board) ==
    Cardinality({sq \in Range5 \X Range5 : Get(board, sq[1], sq[2]) # "."})

\* the square of the board that a pair of list indices names
Square(coord) == <<Norm(coord[1]), Norm(coord[2])>>

\* C12: an applied move changes the two squares it names and no other: the
\* source is empty afterwards, the destination holds the moved piece (a Queen
\* of its color for a Pawn that reached its last row) and the other 23
\* squares hold what they held.  A move onto an occupied square leaves one
\* piece less on the board, a move onto an empty square leaves as many, and
\* no move leaves more.
C12_MoveChangesTwoSquares ==
    last.move # None =>
        LET before == heap[last.prev].board
            after == heap[current_game_state].board
            source == Square(last.move[1])
            destination == Square(last.move[2])
            piece == Get(before, source[1], source[2])
            last_row == IF Color(piece) = "w" THEN 0 ELSE 4
            placed == IF Type(piece) = "p" /\ destination[1] = last_row
                      THEN (IF Color(piece) = "w" THEN "wQ" ELSE "bQ")
                      ELSE piece
        IN  /\ piece # "."
            /\ source # destination
            /\ Get(after, source[1], source[2]) = "."
            /\ Get(after, destination[1], destination[2]) = placed
            /\ \A sq \in (Range5 \X Range5) \ {source, destination} :
                  Get(after, sq[1], sq[2]) = Get(before, sq[1], sq[2])
            /\ PieceCount(after) =
                  IF Get(before, destination[1], destination[2]) # "."
                  THEN PieceCount(before) - 1
                  ELSE PieceCount(before)
            /\ PieceCount(after) <= PieceCount(before)

\* the second half-move took a piece: one piece less than before it
C12_Witness ==
    /\ half_moves = 2
    /\ last.move # None
    /\ Get(heap[last.prev].board, last.move[2][1], last.move[2][2]) # "."
    /\ PieceCount(heap[current_game_state].board) = PieceCount(heap[last.prev].board) - 1
    /\ Get(heap[current_game_state].board, last.move[1][1], last.move[1][2]) = "."

\* C13: a game on the initial board starts with white to move; every step that
\* applies a move moves a piece of the side that was to move and hands the
\* move to the other side, so the applied moves are white's, black's, white's
\* and so on; no other step changes the side to move.
C13_SidesAlternate ==
    /\ heap[current_game_state].board = init_board.board =>
           heap[current_game_state].turn = "white"
    /\ [][IF half_moves' # half_moves
           THEN /\ heap'[current_game_state'].turn # heap[current_game_state].turn
                /\ heap'[current_game_state'].turn \in {"white", "black"}
                /\ Color(Get(heap[current_game_state].board,
                             last'.move[1][1], last'.move[1][2])) =
                      (IF heap[current_game_state].turn = "white" THEN "w" ELSE "b")
           ELSE heap'[current_game_state'].turn = heap[current_game_state].turn]_vars

\* white moved, then black moved a black piece, and it is white's turn again
C13_Witness ==
    /\ half_moves = 2
    /\ heap[current_game_state].turn = "white"
    /\ heap[last.prev].turn = "black"
    /\ Color(Get(heap[last.prev].board, last.move[1][1], last.move[1][2])) = "b"
    /\ turn_number = 2

\* the moves generated for the pieces of the side to move, square by square
MovesOfSide(game_state) ==
    UNION {{generate_moves_for_piece(Get(game_state.board, sq[1], sq[2]), sq,
                                     game_state.board)[i] :
               i \in 1 .. Len(generate_moves_for_piece(Get(game_state.board, sq[1], sq[2]),
                                                       sq, game_state.board))} :
           sq \in {q \in Range5 \X Range5 :
                      Color(Get(game_state.board, q[1], q[2])) =
                          (IF game_state.turn = "white" THEN "w" ELSE "b")}}

\* C14: is_valid_move raises nothing and returns False for every move whose
\* source square is empty, whose source piece belongs to the side not to
\* move, or whose destination is not among the destinations generated for the
\* source piece; it returns True exactly for the moves generated for a piece
\* of the side to move standing on the source square.
C14_ValidMoveIsMembership ==
    (pc = "returned" /\ ret.op = "is_valid_move") =>
        LET game_state == heap[current_game_state]
            move == pending.move
            piece == Get(game_state.board, move[1][1], move[1][2])
            side == IF game_state.turn = "white" THEN "w" ELSE "b"
            destinations ==
                {generate_moves_for_piece(piece, move[1], game_state.board)[i][2] :
                    i \in 1 .. Len(generate_moves_for_piece(piece, move[1],
                                                            game_state.board))}
        IN  /\ ret.result.exc = ""
            /\ ret.result.val \in BOOLEAN
            /\ piece = "." => ret.result.val = FALSE
            /\ Color(piece) # side => ret.result.val = FALSE
            /\ move[2] \notin destinations => ret.result.val = FALSE
            /\ ret.result.val = (move \in MovesOfSide(game_state))

\* on the initial board with white to move: the white pawn's step B2 B3 was
\* accepted
C14_Witness ==
    /\ pc = "returned"
    /\ ret.op = "is_valid_move"
    /\ heap[current_game_state] = init_board
    /\ pending.move = <<<<3, 1>>, <<2, 1>>>>
    /\ ret.result = Returned(TRUE)

\* C15: valid_moves can be called on a game state and returns the moves
\* generated for the pieces of the side to move, those of every such square
\* and no others.
C15_ValidMovesOfSideToMove ==
    (pc = "returned" /\ ret.op = "valid_moves") =>
        /\ ret.result.exc = ""
        /\ {ret.result.val[i] : i \in 1 .. Len(ret.result.val)}
               = MovesOfSide(heap[current_game_state])

\* C16: a search never changes the game it is called on: from the start to
\* the end of every call of ai_move, and of minimax or alpha_beta on the
\* current game state with either flag, current_game_state refers to the same
\* dictionary with the same board and side to move, and the no-capture
\* counter, the turn number and the settings are what they were; of the
\* object's fields only the statistics change.
C16_SearchKeepsTheGame ==
    [][/\ current_game_state' = current_game_state
       /\ heap'[current_game_state] = heap[current_game_state]
       /\ no_capture_count' = no_capture_count
       /\ turn_number' = turn_number
       /\ <<play_mode', use_alpha_beta', heuristic'>> = <<play_mode, use_alpha_beta, heuristic>>]_vars

\* ai_move was called on the initial board on an object with no statistics,
\* visited one state and ended; the board is the initial one, white to move
C16_Witness ==
    /\ pc = "returned"
    /\ ret.op = "ai_move"
    /\ stats.states_explored = 1
    /\ stats # NoStats
    /\ heap[current_game_state] = init_board
    /\ no_capture_count = 0
    /\ turn_number = 1

\* the first move generated for the side to move, the squares taken row by
\* row from row 0 and each row from column 0
FirstMoveOfSide(game_state) ==
    LET side == IF game_state.turn = "white" THEN "w" ELSE "b"
        squares == {q \in Range5 \X Range5 :
                       /\ Color(Get(game_state.board, q[1], q[2])) = side
                       /\ generate_moves_for_piece(Get(game_state.board, q[1], q[2]), q,
                                                    game_state.board) # <<>>}
        first == CHOOSE q \in squares :
                     \A o \in squares : 5 * q[1] + q[2] <= 5 * o[1] + o[2]
    IN  generate_moves_for_piece(Get(game_state.board, first[1], first[2]), first,
                                 game_state.board)[1]

\* C17: when the deadline passes during a depth iteration (the search of the
\* first depth starts in time and its clock reading is past max_time),
\* ai_move still returns: it ends without an error, and what it returns is no
\* move of the aborted iteration but the move kept from before it, here none
\* or the fallback move.
C17_DeadlineKeepsCompletedResult ==
    (/\ pc = "returned"
     /\ ret.op = "ai_move"
     /\ pending.clock[1] * 10 <= max_time * 7
     /\ pending.clock[2] > max_time) =>
        /\ ret.exc = ""
        /\ \/ ret.best_move = None
           \/ ret.best_move \in MovesOfSide(heap[current_game_state])

\* C18: when no search iteration recorded a best move (the first clock
\* reading is already past 70% of max_time, so no iteration ran), ai_move
\* returns the first legal move of the current state with score 0, or, when
\* the side to move has no legal move, a result with no move and no score.
C18_FallbackToFirstLegalMove ==
    (/\ pc = "returned"
     /\ ret.op = "ai_move"
     /\ pending.clock[1] * 10 > max_time * 7) =>
        /\ ret.exc = ""
        /\ IF MovesOfSide(heap[current_game_state]) = {}
           THEN ret.best_move = None /\ ~ret.has_score
           ELSE /\ ret.best_move = FirstMoveOfSide(heap[current_game_state])
                /\ ret.has_score
                /\ ret.best_score = 0

\* C20: the statistics after a call of ai_move count the states of that call
\* only, whatever an earlier call left on the object: one state for each
\* depth the call searched, depths 1, 2, ... with no gap, none when the call
\* searched nothing in time, and no branches or nodes, since no search of the
\* call gets to expand a state.
C20_StatisticsOfThisCallOnly ==
    (pc = "returned" /\ ret.op = "ai_move") =>
        /\ DOMAIN stats.states_by_depth = 1 .. stats.states_explored
        /\ \A depth \in DOMAIN stats.states_by_depth : stats.states_by_depth[depth] = 1
        /\ stats.total_branches = 0
        /\ stats.total_nodes = 0
        /\ stats.states_explored >= 1 <=>
               (pending.clock[1] * 10 <= max_time * 7 /\ pending.clock[2] <= max_time)

\* the object held the statistics of an earlier call that visited one state;
\* the new call searched four depths of a game that is over and reports four
\* states, not five
C20_Witness ==
    /\ pc = "returned"
    /\ ret.op = "ai_move"
    /\ pending.earlier.states_explored = 1
    /\ pending.clock = <<0, 0, 0>>
    /\ stats.states_explored = 4
    /\ stats.states_by_depth = <<1, 1, 1, 1>>

\* C19: parse_input returns either None or a move whose four coordinates are
\* rows and columns of the board, 0..4: a text that names a column outside
\* A..E or a row outside 1..5, or that has more than a letter and a digit in
\* a coordinate, gives None.
C19_ParsedMovesAreOnBoard ==
    (pc = "returned" /\ ret.op = "parse_input") =>
        \/ ret.result = None
        \/ /\ \A i \in 1 .. 2 : \A j \in 1 .. 2 : ret.result[i][j] \in 0 .. 4
           /\ \A i \in 1 .. Len(pending.move) :
                  pending.move[i] \in {" ", "A", "B", "C", "D", "E", "a", "b", "c", "d", "e",
                                       "1", "2", "3", "4", "5"}
           /\ Len(str_split(pending.move, <<>>)[1]) = 2
           /\ Len(str_split(pending.move, <<>>)[2]) = 2

\* what a piece is worth: Pawn 1, Bishop and Knight 3, Queen 9, King king_value
PieceWorth(piece, king_value) ==
    CASE Type(piece) = "p" -> 1
      [] Type(piece) \in {"B", "N"} -> 3
      [] Type(piece) = "Q" -> 9
      [] Type(piece) = "K" -> king_value
      [] OTHER -> 0

\* the worth of the pieces of a color on the squares of where, one by one
WorthOn(board, color, where, king_value) ==
    SeqSum([k \in 1 .. 25 |->
        LET sq == <<(k - 1) \div 5, (k - 1) % 5>>
            piece == Get(board, sq[1], sq[2])
        IN  IF Color(piece) = color /\ sq \in where
            THEN PieceWorth(piece, king_value) ELSE 0])

\* C21: with heuristic e0, evaluate_board returns pawns + 3 bishops +
\* 3 knights + 9 queens + 999 kings of white minus the same sum of black (in
\* tenths here), which is 0 on the starting position.
C21_E0IsMaterialDifference ==
    (pc = "returned" /\ ret.op = "evaluate_board" /\ heuristic = "e0") =>
        LET board == heap[current_game_state].board
        IN  /\ ret.result =
                  Returned(10 * (WorthOn(board, "w", Range5 \X Range5, 999)
                                 - WorthOn(board, "b", Range5 \X Range5, 999)))
            /\ board = init_board.board => ret.result = Returned(0)

\* e0 gave 0 on the starting position
C21_Witness ==
    /\ pc = "returned"
    /\ ret.op = "evaluate_board"
    /\ heuristic = "e0"
    /\ heap[current_game_state] = init_board
    /\ ret.result = Returned(0)

\* the squares the pieces of color can move to, whoever is to move
Attacked(board, color) ==
    {move[2] : move \in MovesOfSide([board |-> board,
                                     turn |-> IF color = "w" THEN "white" ELSE "black"])}

\* C26: with heuristic e2, evaluate_board returns the e1 value minus 0.5
\* times the attacked weight of white plus 0.5 times that of black, the
\* attacked weight of a side being the worth (Pawn 1, Bishop and Knight 3,
\* Queen 9, King 50) of its pieces on squares the other side can move to,
\* each piece once (in tenths here).
C26_E2IsE1MinusAttacked ==
    (pc = "returned" /\ ret.op = "evaluate_board" /\ heuristic = "e2") =>
        LET game_state == heap[current_game_state]
            white_attacked == WorthOn(game_state.board, "w",
                                      Attacked(game_state.board, "b"), 50)
            black_attacked == WorthOn(game_state.board, "b",
                                      Attacked(game_state.board, "w"), 50)
        IN  /\ ret.result.exc = ""
            /\ ret.result.val = evaluate_board("e1", game_state).val
                                    - 5 * white_attacked + 5 * black_attacked

\* the state a move leads to: the piece moved, a capture and a promotion
\* made, the other side to move
Applied(game_state, move) ==
    LET m == make_move([r \in Refs |-> game_state], 1, move, FALSE, 0)
    IN  m.heap[m.val]

\* what a search of depth 0 gives for a state whose counter is ncc
ValueAtDepth0(heur, game_state, ncc) ==
    IF ~OnSomeSquare(game_state.board, "wK") THEN -10000
    ELSE IF ~OnSomeSquare(game_state.board, "bK") THEN 10000
    ELSE IF ncc >= 20 THEN 0
    ELSE evaluate_board(heur, game_state).val

\* the best of the values: the greatest for white, the least for black
Best(values, maximizing_player) ==
    CHOOSE v \in values :
        \A w \in values : IF maximizing_player THEN w <= v ELSE w >= v

\* the node of a direct search: the state searched, the side given by the flag
Node ==
    [heap[current_game_state] EXCEPT
        !.turn = IF pending.maximizing_player THEN "white" ELSE "black"]

\* the node of the search is not a finished game and its side has moves
NodeHasMoves ==
    /\ OnSomeSquare(Node.board, "wK")
    /\ OnSomeSquare(Node.board, "bK")
    /\ no_capture_count < 20
    /\ MovesOfSide(Node) # {}

\* C22: a search of depth 1 on a state that is not over (counter 0, heuristic
\* e0 or e1) returns the maximum, for white, or the minimum, for black, of the
\* values of the states its moves lead to, each child being the state with
\* the move applied: positions one ply apart are scored on different boards.
C22_NodeValueIsBestOfSuccessors ==
    (/\ pc = "returned"
     /\ pending.op = "search"
     /\ pending.depth = 1
     /\ no_capture_count = 0
     /\ heuristic \in {"e0", "e1"}
     /\ NodeHasMoves) =>
        \A r \in {ret.minimax, ret.alpha_beta} :
            /\ r.exc = ""
            /\ r.score = Best({ValueAtDepth0(heuristic, Applied(Node, move), 0) :
                                  move \in MovesOfSide(Node)},
                              pending.maximizing_player)

\* the counter of the state a move leads to from a state with counter ncc
CounterAfter(game_state, move, ncc) ==
    IF Get(game_state.board, move[2][1], move[2][2]) # "." THEN 0 ELSE ncc + 1

\* C23: in a search the counter of half-moves without a capture belongs to
\* each hypothetical state: a state with a king missing scores -1000 or
\* +1000 and a state with both kings and a counter of 20 or more scores 0,
\* each with no move and at any depth; and a search of depth 1 on a state
\* that is not over scores each child with the child's own counter, which a
\* capture resets and any other move increases, so that from a counter of 19
\* every child reached without a capture is a draw.
C23_CounterOfHypotheticalState ==
    (pc = "returned" /\ pending.op = "search" /\ heuristic \in {"e0", "e1"}) =>
        \A r \in {ret.minimax, ret.alpha_beta} :
            IF ~OnSomeSquare(Node.board, "wK") THEN r.exc = "" /\ r.score = -10000 /\ r.move = None
            ELSE IF ~OnSomeSquare(Node.board, "bK")
            THEN r.exc = "" /\ r.score = 10000 /\ r.move = None
            ELSE IF no_capture_count >= 20 THEN r.exc = "" /\ r.score = 0 /\ r.move = None
            ELSE (pending.depth = 1 /\ MovesOfSide(Node) # {}) =>
                    /\ r.exc = ""
                    /\ r.score =
                          Best({ValueAtDepth0(heuristic, Applied(Node, move),
                                              CounterAfter(Node, move, no_capture_count)) :
                                   move \in MovesOfSide(Node)},
                               pending.maximizing_player)

\* the elapsed time ai_move read at its k-th clock reading
Read(k) == Elapsed(pending.clock, k)

\* the first search of the call starts in time and stops on line 431 or 505
FirstSearchRaises ==
    /\ ~is_game_over(heap[current_game_state], no_capture_count).over
    /\ Read(1) * 10 <= max_time * 7
    /\ Read(2) <= max_time

\* C24: ai_move searches the depths 1, 2, 3, ... in this order against the
\* time elapsed since the start of the call.  Every depth whose search
\* returns takes three clock readings: a depth is started only while the
\* first of them is within 70% of max_time, the next depth is gone on to
\* only while the third is within 80%, and the loop is left at the first
\* reading that is past its limit.  The call ends after at most four depths
\* with the clock of the model, which advances at every reading.
C24_DepthsInOrderWithinTheTimeLimits ==
    (pc = "returned" /\ ret.op = "ai_move") =>
        /\ \E n \in 0 .. 4 : DOMAIN stats.states_by_depth = 1 .. n
        /\ IF FirstSearchRaises
           THEN ret.depth = 1 /\ ret.reads = 2 /\ stats.states_explored = 1
           ELSE LET n == ret.depth - 1
                IN  /\ n \in 0 .. 4
                    /\ \A k \in 1 .. n : Read(3 * k - 2) * 10 <= max_time * 7
                    /\ \A k \in 1 .. n - 1 : Read(3 * k) * 10 <= max_time * 8
                    /\ IF n > 0 /\ Read(3 * n) * 10 > max_time * 8
                       THEN ret.reads = 3 * n + 1
                       ELSE /\ Read(3 * n + 1) * 10 > max_time * 7
                            /\ ret.reads = 3 * n + 2

\* on a game that is over, with a clock that starts at 0: four depths were
\* searched, and the fifth was not started, 70% of the time being used up
C24_Witness ==
    /\ pc = "returned"
    /\ ret.op = "ai_move"
    /\ pending.clock = <<0, 0, 0>>
    /\ ret.depth = 5
    /\ stats.states_by_depth = <<1, 1, 1, 1>>
    /\ Read(13) * 10 > max_time * 7
    /\ Read(10) * 10 <= max_time * 7

\* the sum of the counts of a per-depth table
RECURSIVE SumOfCounts(_)
SumOfCounts(by_depth) ==
    IF DOMAIN by_depth = {} THEN 0
    ELSE LET depth == CHOOSE d \in DOMAIN by_depth : TRUE
         IN  by_depth[depth]
             + SumOfCounts([d \in DOMAIN by_depth \ {depth} |-> by_depth[d]])

\* C25: a search call entered after the deadline returns (0, no move) and
\* counts nothing; every other call adds exactly one to the total and one to
\* the count of its depth, so the total is always the sum of the per-depth
\* counts.  A direct search (no deadline) counts its one state at its depth;
\* the searches of ai_move, one for each depth, count one state each unless
\* entered past max_time.
C25_OneStateCountedPerCall ==
    /\ (pc = "returned" /\ pending.op = "search") =>
           \A r \in {ret.minimax, ret.alpha_beta} :
               /\ r.ctx.states_explored = 1
               /\ r.ctx.states_by_depth = (pending.depth :> 1)
    /\ (pc = "returned" /\ ret.op = "ai_move") =>
           /\ stats.states_explored = SumOfCounts(stats.states_by_depth)
           /\ IF FirstSearchRaises
              THEN stats.states_by_depth = (1 :> 1)
              ELSE /\ \A k \in 1 .. ret.depth - 1 :
                         IF Read(3 * k - 1) > max_time
                         THEN k \notin DOMAIN stats.states_by_depth
                         ELSE k \in DOMAIN stats.states_by_depth
                              /\ stats.states_by_depth[k] = 1
                   /\ DOMAIN stats.states_by_depth \subseteq 1 .. ret.depth - 1
                   /\ ret.best_move = None

\* the search of depth 1 was entered past the deadline: it returned, so that
\* ai_move went on to depth 2, and nothing was counted
C25_Witness ==
    /\ pc = "returned"
    /\ ret.op = "ai_move"
    /\ pending.clock = <<0, 11, 11>>
    /\ ret.depth = 2
    /\ stats = NoStats

\* C27: when ai_move has no move to give, the turn loop takes it as a value:
\* no move is applied, the board, the side to move and the no-capture counter
\* stay as they were, and play() does not end with an exception.
C27_NoMoveIsHandled ==
    (ret.op = "ai_move" /\ ret.best_move = None) =>
        /\ pc # "raised"
        /\ exception = ""

\* C28: every move play() applies has its four coordinates in 0..4 and is a
\* legal move of the state it is applied to, and the human's turn never ends
\* in an exception, whatever text is typed: it asks again or applies such a
\* move.
C28_AppliedMovesAreOnBoard ==
    /\ last.move # None =>
           /\ \A i \in 1 .. 2 : \A j \in 1 .. 2 : last.move[i][j] \in 0 .. 4
           /\ last.move \in MovesOfSide(heap[last.prev])
    /\ play_mode = "H-H" => pc # "raised"

\* the pieces on the board that are not kings
NonKingPieces(board) ==
    Cardinality({sq \in Range5 \X Range5 : Type(Get(board, sq[1], sq[2])) \in {"Q", "B", "N", "p"}})

\* the moves a game can still take: DrawLimit for every piece that can be
\* captured, and what the no-capture counter leaves of its limit
Remaining ==
    DrawLimit * NonKingPieces(heap[current_game_state].board)
        + (DrawLimit - no_capture_count)

GameBound == DrawLimit * (NonKingPieces(init_board.board) + 1)

\* C29: a game of play() ends: every applied move takes at least one from
\* what remains (a capture takes a piece and gives the counter back at most
\* what it had used, any other move uses one of the counter), so the moves
\* applied and what remains never exceed DrawLimit * 11 = 220 and the game
\* is over after at most 220 applied half-moves; a move is applied only
\* while the game is not over.
C29_GamesEndWithinTheCaptureBudget ==
    /\ [](half_moves <= GameBound)
    /\ [](pc = "loop" => (Remaining >= 1 /\ half_moves + Remaining <= GameBound))
    /\ [][half_moves' # half_moves =>
             /\ pc = "loop"
             /\ half_moves' = half_moves + 1
             /\ pc' \in {"loop", "over"}
             /\ pc' = "loop" => Remaining' <= Remaining - 1]_vars
    /\ [][pc = "over" => UNCHANGED <<heap, current_game_state, half_moves, pc>>]_vars

\* the bound as it was stated: at most 180 applied half-moves
C29_EndsWithin180 == half_moves <= 180

C29_Witness ==
    /\ pc = "over"
    /\ winner = "draw"
    /\ half_moves > 180
    /\ half_moves <= GameBound
    /\ NonKingPieces(heap[current_game_state].board) = 0
    /\ no_capture_count = DrawLimit

=============================================================================
